---- MODULE Spec2Model ----
\* State-machine model of the event-sourcing engine ESDB
\* (src/src/EventSourcingDB/EventSourcingDB.js): the queue, the persisted
\* user_version, the polling loop, the per-event pipeline, the waiter set
\* and the observers.
\*
\* Configuration modelled: a file-backed store (rwDb.file # ':memory:'), so
\* this.db is a separate read-only handle that sees committed data only, and
\* the queue lives in the same file, so _resultQueue writes through rwDb and
\* takes part in the loop's write transaction (constructor, lines 102-140).
\*
\* Every `await` of the source is a point where other callbacks may run: an
\* I/O request takes effect on the database in one step and its continuation
\* runs in a later step.
EXTENDS Integers, Sequences, FiniteSets, TLC

\* ---------------------------------------------------------------- bounds
\* number of dispatch() calls made by the embedder
MaxEvents == 2
\* number of stopPolling() calls made by the embedder
MaxStops == 1
\* backoff sleeps that end while dispatch calls are being made
MaxRetries == 2
\* length of a queue that is replayed
MaxReplay == 2
\* number of addModel() calls the embedder makes on the store handles
MaxAdds == 2

\* ------------------------------------------------------ program constants
\* ESDB.MAX_RETRY
MAX_RETRY == 38
\* recursion guard of _handleEvent: depth > 100 fails
MaxDepth == 100

\* ------------------------------------------------------- model registry
\* The models map handed to the constructor: two models A and B, each with a
\* preprocessor, a reducer, applyChanges and a deriver whose behaviour is
\* selected by the event type (the fixture that stands for user code).
ModelNames == <<"A", "B">>

preprocModels == ModelNames

reducerNames == ModelNames

deriverModels == ModelNames

\* event types the embedder dispatches while the loop runs: one that always
\* succeeds and one whose deriver fails on some attempts
DispatchTypes == {"OK", "FLAKY"}

\* event types found in a queue that is replayed: every outcome of the pipeline
ReplayTypes == {"OK", "RFAIL", "AFAIL", "VFAIL", "DFAIL", "FLAKY", "PFAIL",
                "PARENT", "PBAD", "NEST", "RBOTH"}

\* event types of the queue whose pipeline run is followed call by call: LOOP
\* is the type whose preprocessor always dispatches a sub-event of type LOOP,
\* PFLAKY one whose preprocessor dispatches a sub-event and whose deriver
\* fails on some attempts; the others are the outcomes of the single phases
DeepTypes == {"LOOP", "NEST", "PBAD", "PARENT", "RFAIL", "PFLAKY",
              "OK", "CANON", "PFAIL", "PBADV", "PNOTYPE", "PFAILB", "AFAIL", "VFAIL",
              "DFAIL"}

\* sub-events a model's preprocessor dispatches for an event type
PreDispatch(name, type) ==
    IF name # "A" THEN <<>>
    ELSE CASE type = "PARENT" -> <<"CHILD">>
           [] type = "PFLAKY" -> <<"CHILD">>
           [] type = "PBAD"   -> <<"CHILD", "RFAIL", "CHILD">>
           [] type = "NEST"   -> <<"CHILD", "PBAD", "CHILD">>
           [] type = "LOOP"   -> <<"LOOP">>
           [] OTHER           -> <<>>

\* outcome of a model's reducer: "none" (no change), "changes", "error"
ReducerOut(name, type) ==
    IF type = "RBOTH" THEN "error"
    ELSE IF name = "A"
    THEN IF type = "RFAIL" THEN "error" ELSE "changes"
    ELSE IF type = "RFAIL" THEN "changes" ELSE "none"

\* does rwStore[name].applyChanges throw
ApplyThrows(name, type) ==
    name = "A" /\ type = "AFAIL"

\* does `PRAGMA user_version=<v>` throw (a store failure injected for this type)
VersionThrows(type) == type = "VFAIL"

\* does the model's deriver throw (flaky: the outcome of this attempt for the
\* type whose deriver fails only sometimes)
DeriverThrows(name, type, flaky) ==
    name = "B" /\ (type = "DFAIL" \/ (type \in {"FLAKY", "PFLAKY"} /\ flaky))

\* ------------------------------------------------------------ event records
\* queue.add: the row of a freshly enqueued event
NewEvent(v, type) ==
    [v |-> v, type |-> type, data |-> "raw", error |-> {}, hasResult |-> FALSE, result |-> {},
     hasFailed |-> FALSE, failedResult |-> {}, events |-> <<>>]

\* _subDispatch: event.events.push({type, data})
SubRecord(type) ==
    [type |-> type, data |-> "raw", error |-> {}, hasResult |-> FALSE, result |-> {},
     hasFailed |-> FALSE, failedResult |-> {}, events |-> <<>>]

\* {...subEvent, v: event.v}
WithV(sub, v) == [f \in DOMAIN sub \cup {"v"} |-> IF f = "v" THEN v ELSE sub[f]]

\* the record keeps its v
KeepV(ev) == ev

\* delete doneEvent.v
WithoutV(ev) == [f \in DOMAIN ev \ {"v"} |-> ev[f]]

\* the result is left where it is
KeepResult(ev) == ev

\* if (x.result) { x.failedResult = x.result; delete x.result }
MoveResult(ev) ==
    IF ev.hasResult
    THEN [ev EXCEPT !.hasFailed = TRUE, !.failedResult = ev.result,
                    !.hasResult = FALSE, !.result = {}]
    ELSE ev

SeqToSet(s) == {s[i] : i \in 1..Len(s)}

\* the names of a list that satisfy P, in list order
RECURSIVE SelectNames(_, _)
SelectNames(names, keep) ==
    IF names = <<>> THEN <<>>
    ELSE (IF Head(names) \in keep THEN <<Head(names)>> ELSE <<>>)
         \o SelectNames(Tail(names), keep)

\* ------------------------------------------------------------- _preprocessor
\* what a model's preprocessor does besides dispatching: "mutate" (returns
\* nothing), "new" (returns a canonicalized copy), "throw", "badv" (returns
\* an event with another v), "notype" (returns an event without type)
PreOut(name, type) ==
    CASE name = "B" /\ type = "CANON"  -> "new"
      [] name = "A" /\ type = "PFAIL"  -> "throw"
      [] name = "A" /\ type = "PBADV"  -> "badv"
      [] name = "A" /\ type = "PNOTYPE" -> "notype"
      [] name = "B" /\ type = "PFAILB" -> "throw"
      [] OTHER -> "mutate"

\* only a throw counts as a failure
FailedWhenThrown(out) == out = "throw"

\* lines 551-563: newEvent.error is set when the preprocessor threw, returned
\* an event with another v, or one without a type
PreprocessorFailed(out) == out \in {"throw", "badv", "notype"}

\* line 563, `if (newEvent.error)`, for an event the preprocessor left as it
\* was given or copied: an error the event record came with counts as one
\* the preprocessor reported
CarriesError(ev) == ev.error # {}

\* Runs the preprocessors in order. cur is the loop variable `event`, orig the
\* object the caller passed in; same says that cur still is that object, so
\* that a sub-event dispatched on cur is also seen through orig.
\* Returns the event _preprocessor returns, the caller's object as the
\* preprocessors left it, and the calls made: which model's preprocessor was
\* given which event, in order.
RECURSIVE PreprocFrom(_, _, _, _)
PreprocFrom(cur, orig, same, i) ==
    IF i > Len(preprocModels) THEN [event |-> cur, orig |-> orig, calls |-> <<>>]
    ELSE LET name == preprocModels[i]
             subs == PreDispatch(name, cur.type)
             pushed == [k \in 1..Len(subs) |-> SubRecord(subs[k])]
             cur1  == [cur EXCEPT !.events = @ \o pushed]
             orig1 == IF same THEN cur1 ELSE orig
             out   == PreOut(name, cur.type)
             call  == [who |-> name, event |-> cur]
         IN  IF PreprocessorFailed(out) \/ CarriesError(cur1)
             THEN [event |-> [cur1 EXCEPT !.error =
                                {<<"_preprocess_" \o name, "thrown">>}],
                   orig |-> orig1, calls |-> <<call>>]
             ELSE LET r == IF out = "new"
                           THEN PreprocFrom([cur1 EXCEPT !.data = "canon"], orig1, FALSE, i + 1)
                           ELSE PreprocFrom(cur1, orig1, same, i + 1)
                  IN  [r EXCEPT !.calls = <<call>> \o @]

_preprocessor(event) == PreprocFrom(event, event, TRUE, 1)

\* ------------------------------------------------------------------ _reducer
\* an error entry for every reducer, failing or not
ReduceErrorsOfAll(failing) == {<<"reduce_" \o n, "thrown">> : n \in SeqToSet(reducerNames)}

\* lines 612-618: error[`reduce_${name}`] = r.error for the reducers that failed
ReduceErrors(failing) == {<<"reduce_" \o n, "thrown">> : n \in failing}

_reducer(event) ==
    LET failing == {n \in SeqToSet(reducerNames) : ReducerOut(n, event.type) = "error"}
        changed == {n \in SeqToSet(reducerNames) : ReducerOut(n, event.type) = "changes"}
    IN  IF failing # {}
        THEN [event EXCEPT !.error = ReduceErrors(failing)]
        ELSE [event EXCEPT !.hasResult = TRUE, !.result = changed]

\* --------------------------------------------------------------- _applyEvent
\* st = [uv, store]: the RW store as the open write transaction sees it.
\* settleAll lets every peer finish before the first error is raised, so the
\* changes of the models that did not throw are in the store when a phase
\* fails.
ApplyRow(v, type, by) == [v |-> v, type |-> type, by |-> by]

RECURSIVE AppendRows(_, _, _, _)
AppendRows(store, names, v, type) ==
    IF names = <<>> THEN store
    ELSE AppendRows(Append(store, ApplyRow(v, type, Head(names))), Tail(names), v, type)

\* One call the pipeline makes, as it is kept in st.log: the function called,
\* the model it belongs to, the event it was given, the recursion depth of
\* the _handleEvent call that made it and the writable flag of the RW models
\* at that moment.
Call(op, who, ev, st) ==
    [op |-> op, who |-> who, v |-> ev.v, type |-> ev.type, data |-> ev.data,
     depth |-> st.depth, w |-> st.writable]

\* the calls of `op` for the models `names`, in order, all given ev
Logged(st, op, names, ev) ==
    [st EXCEPT !.log = @ \o [k \in 1..Len(names) |-> Call(op, names[k], ev, st)]]

\* the flag is left as it is
KeepWritable(st, b) == st

\* `for (const model of readWriters) model.setWritable(b)`
SetWritable(st, b) == [st EXCEPT !.writable = b]

\* a version write that lands one above the event's v
WriteVersionOneAbove(st, v) == [st EXCEPT !.uv = v + 1]

\* `PRAGMA user_version=${event.v}` on the RW handle
WriteVersion(st, v) == [st EXCEPT !.uv = v]

\* every failure is put down to the apply phase
ApplyFailAsApply(event, phase) ==
    [MoveResult(event) EXCEPT !.error = event.error \cup {<<"_apply-apply", "thrown">>}]

ApplyFail(event, phase) ==
    [MoveResult(event) EXCEPT !.error = event.error \cup {<<"_apply-" \o phase, "thrown">>}]

_applyEvent(event, updateVersion, st, flaky) ==
    LET st0       == SetWritable(st, TRUE)
        doApply   == event.hasResult /\ event.result # {}
        applyAll  == SelectNames(ModelNames, event.result)
        applyBad  == {n \in event.result : ApplyThrows(n, event.type)}
        applyOk   == SelectNames(ModelNames, event.result \ applyBad)
        st1       == IF doApply
                     THEN Logged([st0 EXCEPT !.store = AppendRows(@, applyOk, event.v, event.type)],
                                 "applyChanges", applyAll, event)
                     ELSE st0
        versionBad == updateVersion /\ VersionThrows(event.type)
        st2       == IF updateVersion
                     THEN Logged(IF versionBad THEN st1 ELSE WriteVersion(st1, event.v),
                                 "version", <<"">>, event)
                     ELSE st1
        doDerive  == event.error = {} /\ Len(deriverModels) > 0
        deriveBad == {n \in SeqToSet(deriverModels) : DeriverThrows(n, event.type, flaky)}
        deriveOk  == SelectNames(deriverModels, SeqToSet(deriverModels) \ deriveBad)
        derived   == [k \in 1..Len(deriveOk) |-> "d_" \o deriveOk[k]]
        st3       == IF doDerive
                     THEN Logged([st2 EXCEPT !.store = AppendRows(@, derived, event.v, event.type)],
                                 "deriver", deriverModels, event)
                     ELSE st2
    IN  IF doApply /\ applyBad # {}
        THEN [event |-> ApplyFail(event, "apply"), st |-> SetWritable(st1, FALSE)]
        ELSE IF versionBad
        THEN [event |-> ApplyFail(event, "version"), st |-> SetWritable(st2, FALSE)]
        ELSE IF doDerive /\ deriveBad # {}
        THEN [event |-> ApplyFail(event, "derive"), st |-> SetWritable(st3, FALSE)]
        ELSE [event |-> event, st |-> SetWritable(st3, FALSE)]

\* -------------------------------------------------------------- _handleEvent
\* the writable flag of the RW models while no _applyEvent is running: as
\* the models are constructed, and as the `finally` of _applyEvent leaves them
WritableAtRest == FALSE

\* the context of the pipeline when the transaction t begins to handle an
\* event: what the transaction sees, no call made yet
PipelineStart(t) ==
    [uv |-> t.uv, store |-> t.store, log |-> <<>>, writable |-> WritableAtRest,
     depth |-> 0]

\* the context inside the call _handleEvent(origEvent, depth)
AtDepth(st, depth) == [st EXCEPT !.depth = depth]

\* the calls _preprocessor made, each with the event it handed over
LogPreprocessors(st, calls) ==
    [st EXCEPT !.log = @ \o [k \in 1..Len(calls) |->
                                Call("preprocessor", calls[k].who, calls[k].event, st)]]

\* every call asks for the version write
UpdateVersionAlways(depth) == TRUE

\* line 647: `this._applyEvent(event, depth === 0)`
UpdateVersion(depth) == depth = 0

RECURSIVE _handleEvent(_, _, _, _)
RECURSIVE HandleSubs(_, _, _, _, _)

\* the loop over event.events of _handleEvent, from index i (1-based here,
\* i - 1 in the source)
HandleSubs(event, i, depth, st, flaky) ==
    IF i > Len(event.events) THEN [event |-> event, st |-> st]
    ELSE LET r     == _handleEvent(WithV(event.events[i], event.v), depth + 1, st, flaky)
             done0 == WithoutV(r.event)
             done  == IF done0.error # {} THEN MoveResult(done0) ELSE done0
             ev1   == [event EXCEPT !.events[i] = done]
         IN  IF done.error # {}
             THEN [event |-> [ev1 EXCEPT !.error = {<<"_handle", "subevent " \o ToString(i - 1) \o " failed">>}],
                   st |-> r.st]
             ELSE HandleSubs(ev1, i + 1, depth, r.st, flaky)

_handleEvent(origEvent, depth, st, flaky) ==
    IF depth > MaxDepth
    THEN [event |-> [origEvent EXCEPT !.error =
                        @ \cup {<<"_handle", "events recursing too deep">>}],
          st |-> st]
    ELSE LET p  == _preprocessor(origEvent)
             sp == LogPreprocessors(AtDepth(st, depth), p.calls)
         IN  IF p.event.error # {} THEN [event |-> p.event, st |-> sp]
             ELSE LET red == _reducer(p.orig)
                      sr  == Logged(sp, "reducer", reducerNames, p.orig)
                  IN  IF red.error # {} THEN [event |-> red, st |-> sr]
                      ELSE LET app == _applyEvent(red, UpdateVersion(depth), sr, flaky)
                           IN  IF app.event.error # {} THEN app
                               ELSE HandleSubs(app.event, 1, depth, app.st, flaky)

\* ===================================================================== state
VARIABLES
    queue,          \* the queue table as committed: queue[v] is the row of v
    uv,             \* PRAGMA user_version as committed
    store,          \* the model tables as committed: the rows written so far
    tx,             \* the loop's write transaction: [open, uv, store]
    lpc,            \* position of the activation of _waitForEvent
    lastV,          \* _waitForEvent: lastV
    errorCount,     \* _waitForEvent: errorCount
    levent,         \* _waitForEvent: event (NullEvent when none)
    largs,          \* arguments of the pending queue.getNext: [afterV, noBlock]
    lnowV,          \* value delivered by the getVersion the loop awaited
    lres,           \* result of _handleEvent / resultEvent (NullEvent: undefined)
    lret,           \* value _waitForEvent returned (-1: undefined)
    minVersion,     \* this._minVersion
    waitingP,       \* this._waitingP is set
    isPolling,      \* this._isPolling
    reallyStop,     \* this._reallyStop
    gvState,        \* this.getVersionP: "none", "issued" (read pending), "done" (read made, not delivered)
    gvVal,          \* value the pending read returned
    gvAwait,        \* who awaits getVersionP: 0 is the loop, d a dispatch call
    cpc,            \* position of each dispatch call
    ctype,          \* type each dispatch call was given
    cv,             \* event.v queue.add returned to the call
    cver,           \* version delivered to the call's handledVersion
    cfut,           \* state of the future of each call: "pending", "resolved", "rejected"
    cval,           \* the event the future settled with
    cuv,            \* user_version at the moment the future settled
    waitingFor,     \* this._waitingFor: v |-> the call whose waiter it is (0: none)
    maxWaitingFor,  \* this._maxWaitingFor
    sweeps,         \* versions v with a queue.get(v).then(...) of the sweep pending
    lastEmit,       \* the last _triggerEventListeners call: its event's v and the names it emitted
    resultLog,      \* the v of every 'result' notification, in emission order
    errListener,    \* listenerCount('error') > 0
    stops,          \* stopPolling() calls made
    dbFails,        \* store failures injected (one at most)
    applied,        \* the v of every event a loop iteration handled without error, in order
    pre,            \* user_version and tables as committed when the iteration's transaction began
    frames,         \* the _handleEvent calls in progress, outermost first, when they are followed one by one
    lwait,          \* _waitForEvent: the delay in ms of the wait() before the current attempt (0: none)
    failedInRow,    \* attempts of the running activation that failed since its last success
    overlap,        \* _waitForEvent() was called while an earlier activation had not returned
    cown,           \* the call whose waiter object holds the promise a call was given (itself: its own)
    ccall,          \* user_version as committed when the call entered handledVersion (-1: not yet)
    stopAt,         \* v of the event the loop had fetched and not finished when stopPolling() was last called (0: none, or the loop has seen the stop)
    hasModels,      \* constructor: the `models` option was given
    models,         \* constructor: the `models` option, name |-> kind of its definition
    ctorPc,         \* position of the constructor: "validate", "register", "done", "thrown"
    ctorTodo,       \* constructor: the entries of `models` not yet registered, in order
    rwDbStore,      \* names of the models in this.rwDb.store
    roDbStore,      \* names of the models in this.db.store
    esStore,        \* names of the models in this.store of the engine
    lastAdd,        \* the last addModel() call of the embedder: [handle, name, threw]
    adds,           \* addModel() calls the embedder made
    plog,           \* the calls the pipeline made for the event of the current iteration, in order
    sweptOf,        \* v |-> the waiters the sweep deleted for v whose queue.get(v) is pending
    gvReads,        \* `PRAGMA user_version` reads started by getVersion() and not settled
    stopP,          \* the promise the last stopPolling() returned: "none", "pending", "resolved"
    cafter          \* the call dispatched its event after that promise resolved, and no stopPolling() was called since

dbVars == <<queue, uv, store, tx>>
loopVars == <<lpc, lastV, errorCount, levent, largs, lnowV, lres, lret, lwait>>
pollVars == <<minVersion, waitingP, isPolling, reallyStop, overlap>>
gvVars == <<gvState, gvVal, gvAwait, gvReads>>
callVars == <<cpc, ctype, cv, cver, cown, ccall>>
futVars == <<cfut, cval, cuv>>
waitVars == <<waitingFor, maxWaitingFor, sweeps, sweptOf>>
obsVars == <<lastEmit, resultLog, errListener>>
ctorVars == <<hasModels, models, ctorPc, ctorTodo, rwDbStore, roDbStore, esStore,
              lastAdd, adds>>
stopVars == <<stopP, cafter>>
envVars == <<stops, dbFails, stopAt, ctorVars, plog, stopVars>>

vars == <<queue, uv, store, tx, lpc, lastV, errorCount, levent, largs, lnowV,
          lres, lret, minVersion, waitingP, isPolling, reallyStop, gvState,
          gvVal, gvAwait, cpc, ctype, cv, cver, cfut, cval, cuv, waitingFor,
          maxWaitingFor, sweeps, lastEmit, resultLog, errListener, stops,
          dbFails, applied, pre, frames, lwait, failedInRow, overlap, cown, ccall, stopAt,
          hasModels, models, ctorPc, ctorTodo, rwDbStore, roDbStore, esStore,
          lastAdd, adds, plog, sweptOf, gvReads, stopP, cafter>>

Calls == 1..MaxEvents

\* the versions a queue row can have: a replayed queue, or a queue of one
\* event and the events dispatched
Versions == 1..(IF MaxEvents + 1 > MaxReplay THEN MaxEvents + 1 ELSE MaxReplay)

\* one store failure may be injected
MaxDbFails == 1

NullEvent == NewEvent(0, "none")

NoTx == [open |-> FALSE, uv |-> 0, store |-> <<>>]

Max(a, b) == IF a > b THEN a ELSE b

\* ------------------------------------------------------------- getVersion
\* getVersion() that starts a read at every call
GetVersionUncached(g, who) ==
    [state |-> IF g.state = "none" THEN "issued" ELSE g.state,
     await |-> Append(g.await, who),
     reads |-> g.reads + 1]

\* getVersion() called by `who` when getVersionP is g = [state, await] and
\* g.reads reads are under way: starts a read unless getVersionP is set; who
\* awaits the promise
GetVersionCalled(g, who) ==
    [state |-> IF g.state = "none" THEN "issued" ELSE g.state,
     await |-> Append(g.await, who),
     reads |-> IF g.state = "none" THEN g.reads + 1 ELSE g.reads]

\* getVersionP and the reads under way
GetVersionP == [state |-> gvState, await |-> gvAwait, reads |-> gvReads]

\* `.finally(() => { this.getVersionP = null })` after the read settled
GetVersionCleared == [state |-> "none", await |-> <<>>, reads |-> gvReads - 1]

CallGetVersion(who) ==
    LET g == GetVersionCalled(GetVersionP, who)
    IN  /\ gvState' = g.state
        /\ gvAwait' = g.await
        /\ gvReads' = g.reads
        /\ gvVal' = gvVal

\* a delay that does not grow with the failures
WaitFlat(ec) == 5000

\* `await wait(5000 * errorCount)`: the delay in ms
WaitMs(ec) == 5000 * ec

\* ---------------------------------------------------------- _waitForEvent
\* The synchronous run of _waitForEvent from the `while` test to its first
\* await, with lastV = lv and errorCount = ec, under _minVersion = minv and
\* getVersionP = g; ret is the value returned last.
WhileTop(lv, ec, minv, g, ret) ==
    IF ~(minv = 0 \/ minv > lv)
    THEN [lpc |-> "ret", lret |-> lv, g |-> g, wait |-> 0]
    ELSE IF ec > 0
    THEN IF ec > MAX_RETRY
         THEN [lpc |-> "thrown", lret |-> ret, g |-> g, wait |-> 0]
         ELSE [lpc |-> "sleep", lret |-> ret, g |-> g, wait |-> WaitMs(ec)]
    ELSE [lpc |-> "gv1", lret |-> ret, g |-> GetVersionCalled(g, 0), wait |-> 0]

IterTop(lv, ec, minv) ==
    LET r == WhileTop(lv, ec, minv, GetVersionP, lret)
    IN  /\ lpc' = r.lpc
        /\ lret' = r.lret
        /\ lwait' = r.wait
        /\ gvState' = r.g.state
        /\ gvAwait' = r.g.await
        /\ gvReads' = r.g.reads
        /\ gvVal' = gvVal

\* an activation is in flight: _waitForEvent was called and has neither
\* returned nor thrown
InFlight(pc) == pc \notin {"none", "ret", "thrown"}

\* a loop is started whatever _waitingP holds
LoopAlwaysNeeded(wp) == TRUE

\* startPolling: `if (!this._waitingP)`
LoopNeeded(wp) == ~wp

\* startPolling: `if (!this._waitingP) this._waitingP = this._waitForEvent()...`
\* with _minVersion = minv already updated by the caller
StartLoop(minv) ==
    IF ~LoopNeeded(waitingP)
    THEN UNCHANGED <<loopVars, gvVars, waitingP, failedInRow, overlap>>
    ELSE /\ waitingP' = TRUE
         /\ overlap' = (overlap \/ InFlight(lpc))
         /\ lastV' = 0 /\ errorCount' = 0 /\ failedInRow' = 0
         /\ IterTop(0, 0, minv)
         /\ UNCHANGED <<levent, largs, lnowV, lres>>

\* ------------------------------------------------- construction: the models
\* names a models map may hold
CtorNames == <<"A", "B", "metadata">>

\* kinds of model definition: one with a reducer, one whose Model class has
\* no preprocessor, reducer or deriver, and a falsy entry
DefKinds == {"reducer", "bare", "missing"}

NoAdd == [handle |-> "none", name |-> "none", threw |-> FALSE]

\* DB.addModel(Model, {name, ...}) on a handle whose store holds `names`:
\* the model is constructed under the name given, a name that is in the
\* store already throws, else the model is put into the store
AddModel(names, name) ==
    IF name \in names
    THEN [threw |-> TRUE, store |-> names]
    ELSE [threw |-> FALSE, store |-> names \cup {name}]

\* the registry after the constructor ran over the fixture's models map
Registered ==
    /\ hasModels = TRUE
    /\ models = [n \in SeqToSet(ModelNames) |-> "reducer"]
    /\ ctorPc = "done" /\ ctorTodo = <<>>
    /\ rwDbStore = SeqToSet(ModelNames)
    /\ roDbStore = SeqToSet(ModelNames)
    /\ esStore = SeqToSet(ModelNames)
    /\ lastAdd = NoAdd /\ adds = 0

Init ==
    /\ queue = <<>> /\ uv = 0 /\ store = <<>> /\ tx = NoTx
    \* the constructor ends with checkForEvents(): startPolling(1)
    /\ minVersion = 1 /\ waitingP = TRUE /\ isPolling = FALSE /\ reallyStop = FALSE
    /\ lpc = "gv1" /\ lastV = 0 /\ errorCount = 0
    /\ levent = NullEvent /\ largs = [afterV |-> 0, noBlock |-> FALSE]
    /\ lnowV = 0 /\ lres = NullEvent /\ lret = -1
    /\ gvState = "issued" /\ gvVal = 0 /\ gvAwait = <<0>> /\ gvReads = 1
    /\ cpc = [d \in Calls |-> "idle"]
    /\ ctype = [d \in Calls |-> "none"]
    /\ cv = [d \in Calls |-> 0]
    /\ cver = [d \in Calls |-> 0]
    /\ cfut = [d \in Calls |-> "pending"]
    /\ cval = [d \in Calls |-> NullEvent]
    /\ cuv = [d \in Calls |-> 0]
    /\ waitingFor = [v \in Versions |-> 0]
    /\ maxWaitingFor = 0
    /\ sweeps = {} /\ sweptOf = [v \in Versions |-> {}]
    /\ lastEmit = [v |-> 0, names |-> <<>>] /\ resultLog = <<>>
    /\ errListener = TRUE
    /\ stops = 0 /\ dbFails = 0 /\ stopAt = 0 /\ plog = <<>>
    /\ stopP = "none" /\ cafter = [d \in Calls |-> FALSE]
    /\ Registered
    /\ applied = <<>>
    /\ pre = [uv |-> 0, store |-> <<>>]
    /\ frames = <<>>
    /\ lwait = 0 /\ failedInRow = 0
    /\ overlap = FALSE
    /\ cown = [d \in Calls |-> d]
    /\ ccall = [d \in Calls |-> -1]

\* ---------------------------------------------------- _triggerEventListeners
\* The call _triggerEventListeners(ev), made when the pending sweep reads are
\* `pending` and the persisted version is uv.
TriggerEventListeners(ev, pending) ==
    LET o     == waitingFor[ev.v]
        swept == IF ev.v >= maxWaitingFor
                 THEN {v \in Versions : v # ev.v /\ waitingFor[v] # 0 /\ v <= ev.v}
                 ELSE {}
    IN  /\ waitingFor' = [v \in Versions |->
                            IF v = ev.v \/ v \in swept THEN 0 ELSE waitingFor[v]]
        /\ sweeps' = pending \cup swept
        /\ sweptOf' = [v \in Versions |->
                          IF v \in swept THEN sweptOf[v] \cup {waitingFor[v]}
                          ELSE IF v \in pending THEN sweptOf[v] ELSE {}]
        /\ maxWaitingFor' = maxWaitingFor
        /\ errListener' = errListener
        /\ IF ev.error # {}
           THEN /\ lastEmit' = [v |-> ev.v,
                                 names |-> IF errListener THEN <<"error">> ELSE <<>>]
                /\ resultLog' = resultLog
                /\ UNCHANGED futVars
           ELSE /\ lastEmit' = [v |-> ev.v, names |-> <<"result">>]
                /\ resultLog' = Append(resultLog, ev.v)
                /\ IF o # 0
                   THEN /\ cfut' = [cfut EXCEPT ![o] = "resolved"]
                        /\ cval' = [cval EXCEPT ![o] = ev]
                        /\ cuv' = [cuv EXCEPT ![o] = uv]
                   ELSE UNCHANGED futVars

\* queue.get(v).then(event => this._triggerEventListeners(event)) of the sweep
SweepGet(v) ==
    /\ v \in sweeps
    /\ TriggerEventListeners(queue[v], sweeps \ {v})
    /\ UNCHANGED <<dbVars, loopVars, pollVars, gvVars, callVars, envVars, applied, pre, frames, failedInRow>>

\* ------------------------------------------------------------------ dispatch
\* dispatch: `await this.queue.add(type, data, ts)` takes effect
DispatchAdd(d, t) ==
    /\ cpc[d] = "idle"
    /\ \A e \in Calls : e < d => cpc[e] # "idle"
    /\ queue' = Append(queue, NewEvent(Len(queue) + 1, t))
    /\ cv' = [cv EXCEPT ![d] = Len(queue) + 1]
    /\ ctype' = [ctype EXCEPT ![d] = t]
    /\ cpc' = [cpc EXCEPT ![d] = "added"]
    /\ cafter' = [cafter EXCEPT ![d] = (stopP = "resolved")]
    /\ UNCHANGED <<uv, store, tx, loopVars, pollVars, gvVars, cver, cown, ccall, futVars,
                   waitVars, obsVars, stops, dbFails, stopAt, ctorVars, plog, stopP,
                   applied, pre, frames, failedInRow>>

\* handledVersion(v) runs to its first await (called by dispatch with
\* event.v, by waitForQueue with the latest version, or by the embedder):
\* `if (!v) return`, else `await this.getVersion()`
HandledVersionCall(d) ==
    /\ cpc[d] = "added"
    /\ IF cv[d] = 0
       THEN /\ cpc' = [cpc EXCEPT ![d] = "done"]
            /\ cfut' = [cfut EXCEPT ![d] = "resolved"]
            /\ cval' = [cval EXCEPT ![d] = NullEvent]
            /\ cuv' = [cuv EXCEPT ![d] = uv]
            /\ UNCHANGED gvVars
       ELSE /\ CallGetVersion(d)
            /\ cpc' = [cpc EXCEPT ![d] = "gv"]
            /\ UNCHANGED futVars
    /\ ccall' = [ccall EXCEPT ![d] = uv]
    /\ UNCHANGED <<dbVars, loopVars, pollVars, ctype, cv, cver, cown,
                   waitVars, obsVars, envVars, applied, pre, frames, failedInRow>>

\* the embedder calls handledVersion(v)
HandledVersionDirect(d, v) ==
    /\ cpc[d] = "idle"
    /\ \A e \in Calls : e < d => cpc[e] # "idle"
    /\ cv' = [cv EXCEPT ![d] = v]
    /\ ctype' = [ctype EXCEPT ![d] = "handledVersion"]
    /\ cpc' = [cpc EXCEPT ![d] = "added"]
    /\ UNCHANGED <<dbVars, loopVars, pollVars, gvVars, cver, cown, ccall, futVars,
                   waitVars, obsVars, envVars, applied, pre, frames, failedInRow>>

\* the embedder calls waitForQueue(): `await this.queue._getLatestVersion()`
WaitForQueueCall(d) ==
    /\ cpc[d] = "idle"
    /\ \A e \in Calls : e < d => cpc[e] # "idle"
    /\ ctype' = [ctype EXCEPT ![d] = "waitForQueue"]
    /\ cpc' = [cpc EXCEPT ![d] = "latest"]
    /\ UNCHANGED <<dbVars, loopVars, pollVars, gvVars, cv, cver, cown, ccall, futVars,
                   waitVars, obsVars, envVars, applied, pre, frames, failedInRow>>

\* queue._getLatestVersion(): the highest v enqueued, 0 for an empty queue
LatestVersion == Len(queue)

\* the latest version of the queue is read
WaitForQueueLatest(d) ==
    /\ cpc[d] = "latest"
    /\ cv' = [cv EXCEPT ![d] = LatestVersion]
    /\ cpc' = [cpc EXCEPT ![d] = "added"]
    /\ UNCHANGED <<dbVars, loopVars, pollVars, gvVars, ctype, cver, cown, ccall, futVars,
                   waitVars, obsVars, envVars, applied, pre, frames, failedInRow>>

\* handledVersion: `await this.queue.get(v)` and the return / reject; for a
\* row that does not exist `event.error` throws, which rejects the future
HandledVersionGet(d) ==
    /\ cpc[d] = "get"
    /\ cpc' = [cpc EXCEPT ![d] = "done"]
    /\ IF cv[d] > Len(queue)
       THEN /\ cfut' = [cfut EXCEPT ![d] = "rejected"]
            /\ cval' = [cval EXCEPT ![d] = NullEvent]
       ELSE /\ cfut' = [cfut EXCEPT ![d] =
                          IF queue[cv[d]].error # {} THEN "rejected" ELSE "resolved"]
            /\ cval' = [cval EXCEPT ![d] = queue[cv[d]]]
    /\ cuv' = [cuv EXCEPT ![d] = uv]
    /\ UNCHANGED <<dbVars, loopVars, pollVars, gvVars, ctype, cv, cver, cown, ccall,
                   waitVars, obsVars, envVars, applied, pre, frames, failedInRow>>

\* ---------------------------------------------------------------- getVersion
\* the read `PRAGMA user_version` is made on the read-only handle
GetVersionRead ==
    /\ gvState = "issued"
    /\ gvState' = "done"
    /\ gvVal' = uv
    /\ UNCHANGED <<gvAwait, gvReads, dbVars, loopVars, pollVars, callVars, futVars,
                   waitVars, obsVars, envVars, applied, pre, frames, failedInRow>>

\* every version counts as handled
AlwaysHandled(v, version) == TRUE

\* handledVersion: `if (v <= (await this.getVersion()))`
IsHandled(v, version) == v <= version

\* What runs when `await this.getVersion()` delivers val to `who` (0: the
\* loop, d: the handledVersion of dispatch call d); m is the engine's memory.
\* handledVersion, lines 382-400: ask for the stored row, or register the
\* waiter and startPolling(v). _waitForEvent: line 464 calls queue.getNext,
\* line 484 goes on inside the transaction.
AfterGetVersion(m, who, val) ==
    IF who = 0
    THEN IF m.lpc = "gv1"
         THEN [m EXCEPT !.lnowV = val, !.lpc = "getNext",
                        !.largs = [afterV |-> val,
                                   noBlock |-> ~(isPolling \/ m.minVersion # 0)]]
         ELSE [m EXCEPT !.lnowV = val, !.lpc = "gv2done"]
    ELSE LET v == cv[who]
             m1 == [m EXCEPT !.cver[who] = val]
         IN  IF IsHandled(v, val)
             THEN [m1 EXCEPT !.cpc[who] = "get"]
             ELSE IF m1.waitingFor[v] # 0
             THEN [m1 EXCEPT !.cpc[who] = "waiting", !.cown[who] = m1.waitingFor[v]]
             ELSE LET m2 == [m1 EXCEPT !.cpc[who] = "waiting",
                                       !.waitingFor[v] = who,
                                       !.maxWaitingFor = Max(@, v),
                                       !.minVersion = Max(@, v)]
                  IN  IF ~LoopNeeded(m2.waitingP) THEN m2
                      ELSE LET r == WhileTop(0, 0, m2.minVersion, m2.g, m2.lret)
                           IN  [m2 EXCEPT !.waitingP = TRUE, !.lastV = 0,
                                          !.overlap = (@ \/ InFlight(m2.lpc)),
                                          !.errorCount = 0, !.failedInRow = 0,
                                          !.lpc = r.lpc, !.lwait = r.wait,
                                          !.lret = r.lret, !.g = r.g]

RECURSIVE AfterGetVersionAll(_, _, _)
AfterGetVersionAll(m, awaiting, val) ==
    IF awaiting = <<>> THEN m
    ELSE AfterGetVersionAll(AfterGetVersion(m, Head(awaiting), val), Tail(awaiting), val)

\* the read settles: .finally clears getVersionP, then everything that awaited
\* the promise goes on, in the order in which it started to wait
GetVersionSettle ==
    /\ gvState = "done"
    /\ LET m0 == [cpc |-> cpc, cver |-> cver, waitingFor |-> waitingFor,
                  maxWaitingFor |-> maxWaitingFor, minVersion |-> minVersion,
                  waitingP |-> waitingP, lpc |-> lpc, largs |-> largs,
                  lnowV |-> lnowV, lastV |-> lastV, errorCount |-> errorCount,
                  lret |-> lret, lwait |-> lwait, failedInRow |-> failedInRow,
                  overlap |-> overlap, cown |-> cown,
                  g |-> GetVersionCleared]
           m  == AfterGetVersionAll(m0, gvAwait, gvVal)
       IN  /\ cpc' = m.cpc /\ cver' = m.cver
           /\ waitingFor' = m.waitingFor /\ maxWaitingFor' = m.maxWaitingFor
           /\ minVersion' = m.minVersion /\ waitingP' = m.waitingP
           /\ lpc' = m.lpc /\ largs' = m.largs /\ lnowV' = m.lnowV
           /\ lastV' = m.lastV /\ errorCount' = m.errorCount /\ lret' = m.lret
           /\ lwait' = m.lwait /\ failedInRow' = m.failedInRow
           /\ overlap' = m.overlap /\ cown' = m.cown
           /\ gvState' = m.g.state /\ gvAwait' = m.g.await /\ gvReads' = m.g.reads
    /\ gvVal' = gvVal
    /\ UNCHANGED <<dbVars, levent, lres, isPolling, reallyStop, ctype, cv, ccall,
                   futVars, sweeps, sweptOf, obsVars, envVars, applied, pre, frames>>

\* withTransaction(fn) when fn throws: everything the transaction wrote is
\* rolled back
WithTransactionRollback == NoTx

\* the read `PRAGMA user_version` fails
GetVersionReadFails ==
    /\ gvState = "issued"
    /\ dbFails < MaxDbFails
    /\ dbFails' = dbFails + 1
    /\ gvState' = "failed"
    /\ UNCHANGED <<gvVal, gvAwait, gvReads, dbVars, loopVars, pollVars, callVars,
                   futVars, waitVars, obsVars, stops, stopVars, stopAt, ctorVars, plog,
                   applied, pre, frames, failedInRow>>

\* the failed read settles: .finally clears getVersionP, then the promise
\* rejects for everything that awaited it. handledVersion (line 382) rejects
\* its caller. _waitForEvent: at line 465 the catch of lines 468-475 counts
\* the failure and goes to the next iteration; at line 483 the transaction
\* function throws, withTransaction rolls back and the .catch of lines
\* 504-514 makes the resultEvent.
GetVersionReject ==
    /\ gvState = "failed"
    /\ LET awaiting == SeqToSet(gvAwait)
           callers  == awaiting \ {0}
       IN  /\ cpc' = [d \in Calls |-> IF d \in callers THEN "done" ELSE cpc[d]]
           /\ cfut' = [d \in Calls |-> IF d \in callers THEN "rejected" ELSE cfut[d]]
           /\ cval' = [d \in Calls |-> IF d \in callers THEN NullEvent ELSE cval[d]]
           /\ cuv' = [d \in Calls |-> IF d \in callers THEN uv ELSE cuv[d]]
           /\ IF 0 \notin awaiting
              THEN /\ gvState' = GetVersionCleared.state
                   /\ gvAwait' = GetVersionCleared.await
                   /\ gvReads' = GetVersionCleared.reads
                   /\ UNCHANGED <<lpc, errorCount, failedInRow, lwait, lret, lres, tx>>
              ELSE IF lpc = "gv1"
              THEN LET r == WhileTop(lastV, errorCount + 1, minVersion,
                                     GetVersionCleared, lret)
                   IN  /\ errorCount' = errorCount + 1
                       /\ failedInRow' = failedInRow + 1
                       /\ lpc' = r.lpc /\ lret' = r.lret /\ lwait' = r.wait
                       /\ gvState' = r.g.state /\ gvAwait' = r.g.await
                       /\ gvReads' = r.g.reads
                       /\ UNCHANGED <<lres, tx>>
              ELSE /\ tx' = WithTransactionRollback
                   /\ lres' = [levent EXCEPT !.error = {<<"_SQLite", "thrown">>}]
                   /\ lpc' = "after"
                   /\ gvState' = GetVersionCleared.state
                   /\ gvAwait' = GetVersionCleared.await
                   /\ gvReads' = GetVersionCleared.reads
                   /\ UNCHANGED <<errorCount, failedInRow, lwait, lret>>
    /\ gvVal' = gvVal
    /\ UNCHANGED <<queue, uv, store, lastV, levent, largs, lnowV, pollVars,
                   ctype, cv, cver, cown, ccall, waitVars, obsVars, envVars,
                   applied, pre, frames>>

\* -------------------------------------------------------------- _waitForEvent
\* `await wait(5000 * errorCount)` ends; the loop goes on to getVersion()
LoopWake ==
    /\ lpc = "sleep"
    /\ lpc' = "gv1"
    /\ CallGetVersion(0)
    /\ UNCHANGED <<dbVars, lastV, errorCount, levent, lwait, largs, lnowV, lres, lret,
                   pollVars, callVars, futVars, waitVars, obsVars, envVars, applied, pre, frames, failedInRow>>

\* the backoff sleeps that end while the embedder is dispatching
LoopWakeBounded == errorCount <= MaxRetries /\ LoopWake

\* getNext answers: the next row after afterV, or nothing when it may not
\* block. With an event the loop enters rwDb.withTransaction:
\* `lastV = event.v; const nowV = await this.getVersion()`
LoopGetNext ==
    /\ lpc = "getNext"
    /\ IF Len(queue) > largs.afterV
       THEN /\ levent' = queue[largs.afterV + 1]
            /\ tx' = [open |-> TRUE, uv |-> uv, store |-> store]
            /\ lastV' = queue[largs.afterV + 1].v
            /\ lpc' = "gv2"
            /\ lret' = lret
            /\ pre' = [uv |-> uv, store |-> store]
            /\ CallGetVersion(0)
       ELSE /\ largs.noBlock
            /\ levent' = NullEvent
            /\ lpc' = "ret"
            /\ lret' = lastV
            /\ UNCHANGED <<tx, lastV, gvVars, pre>>
    /\ UNCHANGED <<queue, uv, store, errorCount, lwait, largs, lnowV, lres,
                   pollVars, callVars, futVars, waitVars, obsVars,
                   envVars, applied, frames, failedInRow>>

\* getNext throws: `errorCount++; continue`
LoopGetNextFails ==
    /\ lpc = "getNext"
    /\ dbFails < MaxDbFails
    /\ dbFails' = dbFails + 1
    /\ errorCount' = errorCount + 1
    /\ failedInRow' = failedInRow + 1
    /\ IterTop(lastV, errorCount + 1, minVersion)
    /\ UNCHANGED <<dbVars, lastV, levent, largs, lnowV, lres,
                   pollVars, callVars, futVars, waitVars, obsVars, stops, stopVars, stopAt, ctorVars, plog, applied, pre, frames>>

\* `delete event.error; delete event.result`
ClearEvent(ev) == [ev EXCEPT !.error = {}, !.hasResult = FALSE, !.result = {}]

\* no fetched event counts as handled already
NeverHandledElsewhere(event, nowV) == FALSE

\* line 484, `if (event.v <= nowV) return`: the event was handled already
HandledElsewhere(event, nowV) == event.v <= nowV

\* `if (event.v <= nowV) return`, else SAVEPOINT handle and _handleEvent(event)
LoopHandle ==
    /\ lpc = "gv2done"
    /\ lpc' = "handled"
    /\ IF HandledElsewhere(levent, lnowV)
       THEN /\ lres' = NullEvent
            /\ tx' = tx
            /\ plog' = <<>>
       ELSE \E flaky \in BOOLEAN :
              LET r == _handleEvent(ClearEvent(levent), 0, PipelineStart(tx), flaky)
              IN  /\ lres' = r.event
                  /\ tx' = [open |-> TRUE, uv |-> r.st.uv, store |-> r.st.store]
                  /\ plog' = r.st.log
    /\ UNCHANGED <<queue, uv, store, lastV, errorCount, levent, lwait, largs, lnowV, lret,
                   pollVars, gvVars, callVars, futVars, waitVars, obsVars,
                   stops, stopVars, dbFails, stopAt, ctorVars, applied, pre, frames, failedInRow>>

\* a rollback that undoes nothing
RollbackKeepsWrites(t) == t

\* ----------------------------------------- _handleEvent followed call by call
\* A call _handleEvent(origEvent, depth) up to its loop over the sub-events
\* (lines 631-648). The frame of the call: its event, the index i of the
\* sub-event handled next, done when the call has its return value, and flaky,
\* the outcome this attempt has for a deriver that fails only sometimes.
EnterHandleEvent(origEvent, depth, st, flaky) ==
    IF depth > MaxDepth
    THEN [frame |-> [event |-> [origEvent EXCEPT !.error =
                                    @ \cup {<<"_handle", "events recursing too deep">>}],
                     i |-> 1, depth |-> depth, done |-> TRUE, flaky |-> flaky],
          st |-> st]
    ELSE LET p  == _preprocessor(origEvent)
             sp == LogPreprocessors(AtDepth(st, depth), p.calls)
         IN  IF p.event.error # {}
             THEN [frame |-> [event |-> p.event, i |-> 1, depth |-> depth,
                              done |-> TRUE, flaky |-> flaky],
                   st |-> sp]
             ELSE LET red == _reducer(p.orig)
                      sr  == Logged(sp, "reducer", reducerNames, p.orig)
                  IN  IF red.error # {}
                      THEN [frame |-> [event |-> red, i |-> 1, depth |-> depth,
                                       done |-> TRUE, flaky |-> flaky],
                            st |-> sr]
                      ELSE LET app == _applyEvent(red, UpdateVersion(depth), sr, flaky)
                           IN  [frame |-> [event |-> app.event, i |-> 1, depth |-> depth,
                                           done |-> app.event.error # {}, flaky |-> flaky],
                                st |-> app.st]

\* `if (event.v <= nowV) return`, else SAVEPOINT handle and the call
\* _handleEvent(event) begins
HandleBegin ==
    /\ lpc = "gv2done"
    /\ IF HandledElsewhere(levent, lnowV)
       THEN /\ lres' = NullEvent
            /\ lpc' = "handled"
            /\ plog' = <<>>
            /\ UNCHANGED <<tx, frames>>
       ELSE \E flaky \in BOOLEAN :
              LET r == EnterHandleEvent(ClearEvent(levent), 0, PipelineStart(tx), flaky)
              IN  /\ frames' = <<r.frame>>
                  /\ tx' = [open |-> TRUE, uv |-> r.st.uv, store |-> r.st.store]
                  /\ plog' = r.st.log
                  /\ lpc' = "handling"
                  /\ lres' = lres
    /\ UNCHANGED <<queue, uv, store, lastV, errorCount, levent, lwait, largs, lnowV, lret,
                   pollVars, gvVars, callVars, futVars, waitVars, obsVars,
                   stops, stopVars, dbFails, stopAt, ctorVars, applied, pre, failedInRow>>

\* the innermost call reaches a sub-event:
\* `await this._handleEvent({...subEvent, v: event.v}, depth + 1)`
HandleDescend ==
    /\ lpc = "handling"
    /\ LET top == frames[Len(frames)]
       IN  /\ ~top.done /\ top.i <= Len(top.event.events)
           /\ LET r == EnterHandleEvent(WithV(top.event.events[top.i], top.event.v),
                                         top.depth + 1,
                                         [PipelineStart(tx) EXCEPT !.log = plog], top.flaky)
              IN  /\ frames' = Append(frames, r.frame)
                  /\ tx' = [open |-> TRUE, uv |-> r.st.uv, store |-> r.st.store]
                  /\ plog' = r.st.log
    /\ UNCHANGED <<queue, uv, store, loopVars, pollVars, gvVars, callVars, futVars,
                   waitVars, obsVars, stops, stopVars, dbFails, stopAt, ctorVars, applied, pre,
                   failedInRow>>

\* the innermost call returns: to _waitForEvent (line 491), or to the loop
\* over the sub-events of its caller (lines 659-668)
HandleReturn ==
    /\ lpc = "handling"
    /\ LET n   == Len(frames)
           top == frames[n]
       IN  /\ top.done \/ top.i > Len(top.event.events)
           /\ IF n = 1
              THEN /\ lres' = top.event
                   /\ lpc' = "handled"
                   /\ frames' = <<>>
              ELSE LET caller == frames[n - 1]
                       done0  == WithoutV(top.event)
                       done   == IF done0.error # {} THEN MoveResult(done0) ELSE done0
                       ev1    == [caller.event EXCEPT !.events[caller.i] = done]
                       back   == IF done.error # {}
                                 THEN [caller EXCEPT
                                         !.event = [ev1 EXCEPT !.error =
                                            {<<"_handle", "subevent "
                                               \o ToString(caller.i - 1) \o " failed">>}],
                                         !.done = TRUE]
                                 ELSE [caller EXCEPT !.event = ev1, !.i = @ + 1]
                   IN  /\ frames' = [k \in 1..(n - 1) |->
                                        IF k = n - 1 THEN back ELSE frames[k]]
                       /\ UNCHANGED <<lres, lpc>>
    /\ UNCHANGED <<dbVars, lastV, errorCount, levent, lwait, largs, lnowV, lret,
                   pollVars, gvVars, callVars, futVars, waitVars, obsVars,
                   envVars, applied, pre, failedInRow>>

\* ROLLBACK TO SAVEPOINT handle: the store and user_version as they were at
\* SAVEPOINT handle, the first statement of the transaction
RollbackToSavepoint(t) == [open |-> TRUE, uv |-> uv, store |-> store]

\* the savepoint is released whatever the result
AlwaysRelease(t, result) == [tx |-> t, result |-> MoveResult(result)]

\* lines 492-501: what the transaction holds and what is handed to set()
\* after the savepoint was rolled back to or released
AfterSavepoint(t, result) ==
    IF result.error # {}
    THEN [tx |-> RollbackToSavepoint(t), result |-> MoveResult(result)]
    ELSE [tx |-> t, result |-> result]

\* the transaction function returns: the savepoint is rolled back to or
\* released, `this._resultQueue.set(result)` writes the row, and COMMIT makes
\* the writes of the transaction (tables, user_version, queue row) visible
LoopCommit ==
    /\ lpc = "handled"
    /\ IF lres # NullEvent
       THEN LET a == AfterSavepoint(tx, lres)
            IN  /\ lres' = a.result
                /\ queue' = [queue EXCEPT ![lres.v] = a.result]
                /\ uv' = a.tx.uv
                /\ store' = a.tx.store
                /\ applied' = IF lres.error = {} THEN Append(applied, lres.v) ELSE applied
       ELSE UNCHANGED <<queue, uv, store, applied, lres>>
    /\ tx' = NoTx
    /\ lpc' = "after"
    /\ UNCHANGED <<lastV, errorCount, levent, lwait, largs, lnowV, lret,
                   pollVars, gvVars, callVars, futVars, waitVars, obsVars, envVars, pre, frames, failedInRow>>

\* a statement of the transaction throws: withTransaction rolls back and the
\* .catch makes {...event, error: {_SQLite: ...}} the resultEvent
LoopTransactionFails ==
    /\ lpc = "handled"
    /\ lres # NullEvent
    /\ dbFails < MaxDbFails
    /\ dbFails' = dbFails + 1
    /\ tx' = WithTransactionRollback
    /\ lres' = [ClearEvent(levent) EXCEPT !.error = {<<"_SQLite", "thrown">>}]
    /\ lpc' = "after"
    /\ UNCHANGED <<queue, uv, store, lastV, errorCount, levent, lwait, largs, lnowV, lret,
                   pollVars, gvVars, callVars, futVars, waitVars, obsVars,
                   stops, stopVars, stopAt, ctorVars, plog, applied, pre, frames, failedInRow>>

\* the rest of the iteration: lines 515-533 and the next `while` test
LoopAfter ==
    /\ lpc = "after"
    /\ IF lres = NullEvent
       THEN /\ IterTop(lastV, errorCount, minVersion)
            /\ UNCHANGED <<lastV, errorCount, reallyStop, futVars, waitVars, obsVars, failedInRow>>
       ELSE LET ec == IF lres.error # {} THEN errorCount + 1 ELSE 0
                lv == IF lres.error # {} THEN lres.v - 1 ELSE lastV
            IN  /\ errorCount' = ec
                /\ failedInRow' = (IF lres.error # {} THEN failedInRow + 1 ELSE 0)
                /\ lastV' = lv
                /\ TriggerEventListeners(lres, sweeps)
                /\ IF reallyStop
                   THEN /\ reallyStop' = FALSE
                        /\ lpc' = "ret" /\ lret' = -1 /\ lwait' = lwait
                        /\ UNCHANGED gvVars
                   ELSE /\ reallyStop' = reallyStop
                        /\ IterTop(lv, ec, minVersion)
    \* the stop that was observed is forgotten
    /\ stopAt' = (IF lres # NullEvent /\ reallyStop THEN 0 ELSE stopAt)
    \* the calls of the iteration are kept up to its end only
    /\ plog' = <<>>
    /\ UNCHANGED <<dbVars, levent, largs, lnowV, lres, minVersion, waitingP,
                   isPolling, overlap, callVars, stops, stopVars, dbFails, ctorVars,
                   applied, pre, frames>>

\* the .then of startPolling after _waitForEvent returned
LoopThen ==
    /\ lpc = "ret"
    /\ IF lret # -1 /\ minVersion # 0 /\ lret < minVersion
       THEN /\ waitingP' = TRUE
            /\ minVersion' = minVersion
            /\ lastV' = 0 /\ errorCount' = 0 /\ failedInRow' = 0
            /\ overlap' = (overlap \/ InFlight(lpc))
            /\ IterTop(0, 0, minVersion)
            /\ stopP' = stopP
       ELSE /\ waitingP' = FALSE
            /\ minVersion' = 0
            /\ lpc' = "none"
            \* the promise stopPolling() returned, if one is pending, resolves
            /\ stopP' = (IF stopP = "pending" THEN "resolved" ELSE stopP)
            /\ UNCHANGED <<lastV, errorCount, lret, lwait, gvVars, failedInRow, overlap>>
    /\ UNCHANGED <<dbVars, levent, largs, lnowV, lres, isPolling, reallyStop,
                   callVars, futVars, waitVars, obsVars, stops, dbFails, stopAt,
                   ctorVars, plog, cafter, applied, pre, frames>>

\* ----------------------------------------------------- embedder's other calls
\* startPolling() without a version: poll for ever
StartPolling ==
    /\ ~isPolling \/ ~waitingP
    /\ isPolling' = TRUE
    /\ StartLoop(minVersion)
    /\ UNCHANGED <<dbVars, minVersion, reallyStop, callVars, futVars, waitVars,
                   obsVars, envVars, applied, pre, frames>>

\* an event is in the pipeline: getNext has returned it and the iteration
\* that handles it has not reached its end
InPipeline == lpc \in {"gv2", "gv2done", "handling", "handled", "after"}

StopPolling ==
    /\ stops < MaxStops
    /\ stops' = stops + 1
    /\ stopAt' = (IF InPipeline THEN levent.v ELSE 0)
    /\ isPolling' = FALSE
    /\ reallyStop' = TRUE
    \* `return this._waitingP || Promise.resolve()`
    /\ stopP' = (IF waitingP THEN "pending" ELSE "resolved")
    /\ cafter' = [d \in Calls |-> FALSE]
    /\ UNCHANGED <<dbVars, loopVars, minVersion, waitingP, overlap, gvVars, callVars,
                   futVars, waitVars, obsVars, dbFails, ctorVars, plog, applied, pre, frames, failedInRow>>

Next ==
    \/ \E d \in Calls, t \in DispatchTypes : DispatchAdd(d, t)
    \/ \E d \in Calls : HandledVersionCall(d)
    \/ \E d \in Calls : HandledVersionGet(d)
    \/ GetVersionRead
    \/ GetVersionSettle
    \/ \E v \in Versions : SweepGet(v)
    \/ LoopWakeBounded
    \/ LoopGetNext
    \/ LoopHandle
    \/ LoopCommit
    \/ LoopAfter
    \/ LoopThen

Spec == Init /\ [][Next]_vars

RECURSIVE QueuesOver(_, _)
QueuesOver(types, n) ==
    IF n = 0 THEN {<<>>}
    ELSE {Append(q, NewEvent(n, t)) : q \in QueuesOver(types, n - 1), t \in types}

\* ------------------------------------------------------------------- replay
\* The engine constructed over a queue that already holds events: the loop
\* replays them, nobody dispatches.
RECURSIVE QueuesOfLen(_)
QueuesOfLen(n) ==
    IF n = 0 THEN {<<>>}
    ELSE {Append(q, NewEvent(n, t)) : q \in QueuesOfLen(n - 1), t \in ReplayTypes}

InitQueues == UNION {QueuesOfLen(n) : n \in 1..MaxReplay}

\* the engine's memory when the constructor has run: checkForEvents() has
\* started the loop with _minVersion = 1, nothing else has happened
Constructed ==
    /\ uv = 0 /\ store = <<>> /\ tx = NoTx
    /\ minVersion = 1 /\ waitingP = TRUE /\ isPolling = FALSE /\ reallyStop = FALSE
    /\ lpc = "gv1" /\ lastV = 0 /\ errorCount = 0
    /\ levent = NullEvent /\ largs = [afterV |-> 0, noBlock |-> FALSE]
    /\ lnowV = 0 /\ lres = NullEvent /\ lret = -1
    /\ gvState = "issued" /\ gvVal = 0 /\ gvAwait = <<0>> /\ gvReads = 1
    /\ cpc = [d \in Calls |-> "idle"]
    /\ ctype = [d \in Calls |-> "none"]
    /\ cv = [d \in Calls |-> 0]
    /\ cver = [d \in Calls |-> 0]
    /\ cfut = [d \in Calls |-> "pending"]
    /\ cval = [d \in Calls |-> NullEvent]
    /\ cuv = [d \in Calls |-> 0]
    /\ waitingFor = [v \in Versions |-> 0]
    /\ maxWaitingFor = 0
    /\ sweeps = {} /\ sweptOf = [v \in Versions |-> {}]
    /\ lastEmit = [v |-> 0, names |-> <<>>] /\ resultLog = <<>>
    /\ stops = 0 /\ dbFails = 0 /\ stopAt = 0 /\ plog = <<>>
    /\ stopP = "none" /\ cafter = [d \in Calls |-> FALSE]
    /\ Registered
    /\ applied = <<>>
    /\ pre = [uv |-> 0, store |-> <<>>]
    /\ frames = <<>>
    /\ lwait = 0 /\ failedInRow = 0
    /\ overlap = FALSE
    /\ cown = [d \in Calls |-> d]
    /\ ccall = [d \in Calls |-> -1]

InitReplay ==
    /\ queue \in InitQueues
    /\ errListener \in BOOLEAN
    /\ Constructed

NextReplay ==
    \/ GetVersionRead
    \/ GetVersionSettle
    \/ LoopWakeBounded
    \/ LoopGetNext
    \/ LoopGetNextFails
    \/ LoopHandle
    \/ LoopTransactionFails
    \/ LoopCommit
    \/ LoopAfter
    \/ LoopThen
    \/ StartPolling
    \/ StopPolling

SpecReplay == InitReplay /\ [][NextReplay]_vars

\* ------------------------------------------------------------ deep pipeline
\* The engine constructed over a queue of one event; the calls of
\* _handleEvent are followed one by one, down to the recursion guard.
InitDeep ==
    /\ queue \in {<<NewEvent(1, t)>> : t \in DeepTypes}
    /\ errListener = TRUE
    /\ Constructed

NextDeep ==
    \/ GetVersionRead
    \/ GetVersionSettle
    \/ LoopWakeBounded
    \/ LoopGetNext
    \/ HandleBegin
    \/ HandleDescend
    \/ HandleReturn
    \/ LoopCommit
    \/ LoopAfter
    \/ LoopThen

SpecDeep == InitDeep /\ [][NextDeep]_vars

\* -------------------------------------------------------------------- calls
\* The engine constructed over an empty queue or a queue of one event, and an
\* embedder that waits for versions: dispatch, handledVersion, waitForQueue.
\* Every event succeeds.
InitCalls ==
    /\ queue \in UNION {QueuesOver({"OK"}, n) : n \in 0..1}
    /\ errListener = TRUE
    /\ Constructed

NextCalls ==
    \/ \E d \in Calls : DispatchAdd(d, "OK")
    \/ \E d \in Calls, v \in Versions : HandledVersionDirect(d, v)
    \/ \E d \in Calls : WaitForQueueCall(d)
    \/ \E d \in Calls : WaitForQueueLatest(d)
    \/ \E d \in Calls : HandledVersionCall(d)
    \/ \E d \in Calls : HandledVersionGet(d)
    \/ GetVersionRead
    \/ GetVersionSettle
    \/ \E v \in Versions : SweepGet(v)
    \/ LoopGetNext
    \/ LoopHandle
    \/ LoopCommit
    \/ LoopAfter
    \/ LoopThen

SpecCalls == InitCalls /\ [][NextCalls]_vars

\* --------------------------------------------------------------------- stop
\* The engine constructed over an empty queue and an embedder that dispatches
\* events (each one succeeds or fails in its deriver), starts polling and
\* stops it. A backoff sleep does not end while this goes on.
NextStop ==
    \/ \E d \in Calls : DispatchAdd(d, "FLAKY")
    \/ \E d \in Calls : HandledVersionCall(d)
    \/ \E d \in Calls : HandledVersionGet(d)
    \/ GetVersionRead
    \/ GetVersionSettle
    \/ \E v \in Versions : SweepGet(v)
    \/ LoopGetNext
    \/ LoopHandle
    \/ LoopCommit
    \/ LoopAfter
    \/ LoopThen
    \/ StartPolling
    \/ StopPolling

SpecStop == Init /\ [][NextStop]_vars

\* ------------------------------------------------------- stop, then dispatch
\* The engine constructed over a queue that holds one event not yet handled;
\* the embedder stops and starts polling and dispatches events that succeed.
InitStopThenDispatch ==
    /\ queue = <<NewEvent(1, "OK")>> /\ uv = 0 /\ store = <<>> /\ tx = NoTx
    \* the constructor ends with checkForEvents(): startPolling(1)
    /\ minVersion = 1 /\ waitingP = TRUE /\ isPolling = FALSE /\ reallyStop = FALSE
    /\ lpc = "gv1" /\ lastV = 0 /\ errorCount = 0
    /\ levent = NullEvent /\ largs = [afterV |-> 0, noBlock |-> FALSE]
    /\ lnowV = 0 /\ lres = NullEvent /\ lret = -1
    /\ gvState = "issued" /\ gvVal = 0 /\ gvAwait = <<0>> /\ gvReads = 1
    /\ cpc = [d \in Calls |-> "idle"]
    /\ ctype = [d \in Calls |-> "none"]
    /\ cv = [d \in Calls |-> 0]
    /\ cver = [d \in Calls |-> 0]
    /\ cfut = [d \in Calls |-> "pending"]
    /\ cval = [d \in Calls |-> NullEvent]
    /\ cuv = [d \in Calls |-> 0]
    /\ waitingFor = [v \in Versions |-> 0]
    /\ maxWaitingFor = 0
    /\ sweeps = {} /\ sweptOf = [v \in Versions |-> {}]
    /\ lastEmit = [v |-> 0, names |-> <<>>] /\ resultLog = <<>>
    /\ errListener = TRUE
    /\ stops = 0 /\ dbFails = 0 /\ stopAt = 0 /\ plog = <<>>
    /\ stopP = "none" /\ cafter = [d \in Calls |-> FALSE]
    /\ Registered
    /\ applied = <<>>
    /\ pre = [uv |-> 0, store |-> <<>>]
    /\ frames = <<>>
    /\ lwait = 0 /\ failedInRow = 0
    /\ overlap = FALSE
    /\ cown = [d \in Calls |-> d]
    /\ ccall = [d \in Calls |-> -1]

NextStopThenDispatch ==
    \/ \E d \in Calls : DispatchAdd(d, "OK")
    \/ \E d \in Calls : HandledVersionCall(d)
    \/ \E d \in Calls : HandledVersionGet(d)
    \/ GetVersionRead
    \/ GetVersionSettle
    \/ \E v \in Versions : SweepGet(v)
    \/ LoopGetNext
    \/ LoopHandle
    \/ LoopCommit
    \/ LoopAfter
    \/ LoopThen
    \/ StartPolling
    \/ StopPolling

SpecStopThenDispatch == InitStopThenDispatch /\ [][NextStopThenDispatch]_vars

\* ------------------------------------------------------------ version reads
\* The engine constructed over an empty queue and an embedder that dispatches
\* events that succeed; one read of user_version may fail.
NextVersionReads ==
    \/ \E d \in Calls : DispatchAdd(d, "OK")
    \/ \E d \in Calls : HandledVersionCall(d)
    \/ \E d \in Calls : HandledVersionGet(d)
    \/ GetVersionRead
    \/ GetVersionReadFails
    \/ GetVersionSettle
    \/ GetVersionReject
    \/ \E v \in Versions : SweepGet(v)
    \/ LoopWakeBounded
    \/ LoopGetNext
    \/ LoopHandle
    \/ LoopCommit
    \/ LoopAfter
    \/ LoopThen

SpecVersionReads == Init /\ [][NextVersionReads]_vars

\* ------------------------------------------------------------------ give up
\* The engine constructed over a queue whose events may fail on every attempt;
\* every backoff sleep ends, so the loop retries until it gives up.
RetryTypes == {"OK", "DFAIL", "FLAKY", "AFAIL"}

InitRetry ==
    /\ queue \in UNION {QueuesOver(RetryTypes, n) : n \in 1..MaxReplay}
    /\ errListener = TRUE
    /\ Constructed

NextRetry ==
    \/ GetVersionRead
    \/ GetVersionSettle
    \/ LoopWake
    \/ LoopGetNext
    \/ LoopGetNextFails
    \/ LoopHandle
    \/ LoopTransactionFails
    \/ LoopCommit
    \/ LoopAfter
    \/ LoopThen

SpecRetry == InitRetry /\ [][NextRetry]_vars

\* ------------------------------------------------------------ construction
\* new ESDB({models, ...}) followed step by step over every models map of up
\* to three names, and an embedder that then calls addModel() on the store
\* handles. The fields have their initial values until checkForEvents().
EntriesOf(m) == SelectNames(CtorNames, DOMAIN m)

ModelMaps == UNION {[S -> DefKinds] : S \in SUBSET SeqToSet(CtorNames)}

InitCtor ==
    /\ hasModels \in BOOLEAN
    /\ models \in (IF hasModels THEN ModelMaps ELSE {<<>>})
    /\ ctorPc = "validate" /\ ctorTodo = <<>>
    /\ rwDbStore = {} /\ roDbStore = {} /\ esStore = {}
    /\ lastAdd = NoAdd /\ adds = 0
    /\ queue = <<>> /\ uv = 0 /\ store = <<>> /\ tx = NoTx
    /\ minVersion = 0 /\ waitingP = FALSE /\ isPolling = FALSE /\ reallyStop = FALSE
    /\ lpc = "none" /\ lastV = 0 /\ errorCount = 0
    /\ levent = NullEvent /\ largs = [afterV |-> 0, noBlock |-> FALSE]
    /\ lnowV = 0 /\ lres = NullEvent /\ lret = -1
    /\ gvState = "none" /\ gvVal = 0 /\ gvAwait = <<>> /\ gvReads = 0
    /\ cpc = [d \in Calls |-> "idle"]
    /\ ctype = [d \in Calls |-> "none"]
    /\ cv = [d \in Calls |-> 0]
    /\ cver = [d \in Calls |-> 0]
    /\ cfut = [d \in Calls |-> "pending"]
    /\ cval = [d \in Calls |-> NullEvent]
    /\ cuv = [d \in Calls |-> 0]
    /\ waitingFor = [v \in Versions |-> 0]
    /\ maxWaitingFor = 0
    /\ sweeps = {} /\ sweptOf = [v \in Versions |-> {}]
    /\ lastEmit = [v |-> 0, names |-> <<>>] /\ resultLog = <<>>
    /\ errListener = TRUE
    /\ stops = 0 /\ dbFails = 0 /\ stopAt = 0 /\ plog = <<>>
    /\ stopP = "none" /\ cafter = [d \in Calls |-> FALSE]
    /\ applied = <<>>
    /\ pre = [uv |-> 0, store |-> <<>>]
    /\ frames = <<>>
    /\ lwait = 0 /\ failedInRow = 0
    /\ overlap = FALSE
    /\ cown = [d \in Calls |-> d]
    /\ ccall = [d \in Calls |-> -1]

engineVars == <<dbVars, loopVars, pollVars, gvVars, callVars, futVars, waitVars,
                obsVars, stops, stopVars, dbFails, stopAt, plog, applied, pre, frames, failedInRow>>

\* the checks on the options (lines 94-100): `if (!models) throw`
CtorValidate ==
    /\ ctorPc = "validate"
    /\ IF ~hasModels
       THEN ctorPc' = "thrown" /\ ctorTodo' = ctorTodo
       ELSE ctorPc' = "register" /\ ctorTodo' = EntriesOf(models)
    /\ UNCHANGED <<hasModels, models, rwDbStore, roDbStore, esStore, lastAdd, adds,
                   engineVars>>

\* one pass of `for (const [name, modelDef] of Object.entries(models))`
CtorRegister ==
    /\ ctorPc = "register" /\ ctorTodo # <<>>
    /\ LET name == Head(ctorTodo)
           rw   == AddModel(rwDbStore, name)
           ro   == AddModel(roDbStore, name)
       IN  IF models[name] = "missing" \/ rw.threw
           THEN /\ ctorPc' = "thrown"
                /\ UNCHANGED <<ctorTodo, rwDbStore, roDbStore, esStore>>
           ELSE /\ rwDbStore' = rw.store
                /\ IF ro.threw
                   THEN /\ ctorPc' = "thrown"
                        /\ UNCHANGED <<ctorTodo, roDbStore, esStore>>
                   ELSE /\ roDbStore' = ro.store
                        /\ esStore' = esStore \cup {name}
                        /\ IF models[name] = "bare"
                           THEN ctorPc' = "thrown" /\ ctorTodo' = ctorTodo
                           ELSE ctorPc' = ctorPc /\ ctorTodo' = Tail(ctorTodo)
    /\ UNCHANGED <<hasModels, models, lastAdd, adds, engineVars>>

\* the end of the constructor: `if (!readOnly) this.checkForEvents()`
CtorFinish ==
    /\ ctorPc = "register" /\ ctorTodo = <<>>
    /\ ctorPc' = "done"
    /\ minVersion' = Max(minVersion, 1)
    /\ StartLoop(Max(minVersion, 1))
    /\ UNCHANGED <<hasModels, models, ctorTodo, rwDbStore, roDbStore, esStore,
                   lastAdd, adds, dbVars, isPolling, reallyStop, callVars, futVars,
                   waitVars, obsVars, stops, stopVars, dbFails, stopAt, plog, applied, pre, frames>>

\* the embedder calls addModel(Model, {name}) on the read-write handle
AddModelRw(name) ==
    /\ ctorPc = "done" /\ adds < MaxAdds
    /\ adds' = adds + 1
    /\ LET r == AddModel(rwDbStore, name)
       IN  /\ rwDbStore' = r.store
           /\ lastAdd' = [handle |-> "rw", name |-> name, threw |-> r.threw]
    /\ UNCHANGED <<hasModels, models, ctorPc, ctorTodo, roDbStore, esStore, engineVars>>

\* the embedder calls addModel(Model, {name}) on the read-only handle
AddModelRo(name) ==
    /\ ctorPc = "done" /\ adds < MaxAdds
    /\ adds' = adds + 1
    /\ LET r == AddModel(roDbStore, name)
       IN  /\ roDbStore' = r.store
           /\ lastAdd' = [handle |-> "ro", name |-> name, threw |-> r.threw]
    /\ UNCHANGED <<hasModels, models, ctorPc, ctorTodo, rwDbStore, esStore, engineVars>>

NextCtor ==
    \/ CtorValidate
    \/ CtorRegister
    \/ CtorFinish
    \/ \E name \in SeqToSet(CtorNames) : AddModelRw(name)
    \/ \E name \in SeqToSet(CtorNames) : AddModelRo(name)

SpecCtor == InitCtor /\ [][NextCtor]_vars

TypeOK ==
    /\ uv \in {0} \cup Versions
    /\ Len(queue) \in {0} \cup Versions
    /\ errorCount \in 0..(MAX_RETRY + 1)
    /\ lpc \in {"none", "gv1", "getNext", "gv2", "gv2done", "handling",
                "handled", "after", "ret", "sleep", "thrown"}
    /\ Len(frames) <= MaxDepth + 2

\* ==================================================================== claims
\* the polling loop is between iterations: no transaction is open and the
\* outcome of the last one has been dealt with
BetweenIterations == ~tx.open /\ lpc \notin {"handled", "after"}

\* the rows of the queue that were processed and stored without error
StoredOk == {v \in 1..Len(queue) : queue[v].hasResult /\ queue[v].error = {}}

\* the versions that left rows in the committed tables
AppliedInStore == {store[i].v : i \in 1..Len(store)}

\* C1: between iterations the persisted user_version is the highest v that was
\* processed successfully (0 if none) and the number of events stored without
\* error; every event up to user_version has been applied to the tables and
\* event user_version + 1 has not.
C1_VersionIsLastApplied ==
    BetweenIterations =>
        /\ uv = (IF applied = <<>> THEN 0 ELSE applied[Len(applied)])
        /\ \A i \in 1..Len(applied) : applied[i] = i
        /\ uv = Cardinality(StoredOk)
        /\ \A v \in 1..uv : v \in AppliedInStore
        /\ (uv + 1) \notin AppliedInStore

C1_Witness ==
    /\ BetweenIterations
    /\ uv = 2
    /\ \E v \in 1..2 : queue[v].hasFailed

\* C2: an iteration whose event ends with an error leaves the committed
\* tables and user_version exactly as they were before the iteration.
C2_ErrorLeavesStoreUntouched ==
    (lpc = "after" /\ lres # NullEvent /\ lres.error # {}) =>
        (uv = pre.uv /\ store = pre.store)

\* a deriver failed after the tables and user_version had been written
C2_Witness ==
    /\ lpc = "after"
    /\ <<"_apply-derive", "thrown">> \in lres.error
    /\ uv = pre.uv /\ store = pre.store
    /\ lres.v = uv + 1

C4_FailedEventBlocks ==
    /\ (lpc = "handled" /\ lres # NullEvent) => levent.v = uv + 1
    /\ (lpc = "after" /\ lres # NullEvent /\ lres.error # {}) =>
            (lres.v = uv + 1 /\ lres.v = levent.v)

\* the failed event is being retried while a later one waits in the queue
C4_Witness ==
    /\ lpc = "handled" /\ lres # NullEvent
    /\ errorCount >= 1
    /\ Len(queue) > levent.v

\* C5: a dispatch future whose waiter has been taken out of the waiter set
\* (its event was handled) is settled: resolved, or rejected on error.
C5_FutureSettledWhenHandled ==
    \A d \in Calls :
        (cpc[d] = "waiting" /\ waitingFor[cv[d]] # d /\ cv[d] \notin sweeps)
            => cfut[d] # "pending"

\* C6: while a waiter is registered the loop is running (or about to be
\* restarted) with _minVersion at least the waiter's version.
C6_WaiterKeepsLoopRunning ==
    \A v \in Versions :
        waitingFor[v] # 0 => (waitingP /\ minVersion >= v)

\* C7 as stated: a resolved dispatch future holds the event whose v is the
\* persisted user_version of the moment it resolved.
C7_ResolvedAtOwnVersion ==
    \A d \in Calls :
        cfut[d] = "resolved" => cval[d].v = cuv[d]

\* C7: a resolved dispatch future holds its own event, processed without
\* error, and the persisted user_version of the moment it resolved is at least
\* that event's v; it is exactly that v when the loop resolved the future
\* through the waiter set.
C7_ResolvedAtOrBelowVersion ==
    \A d \in Calls :
        cfut[d] = "resolved" =>
            /\ cval[d].v = cv[d]
            /\ cval[d].error = {} /\ cval[d].hasResult
            /\ cval[d].v <= cuv[d]
            /\ (cpc[d] = "waiting" => cval[d].v = cuv[d])

\* one future resolved by the loop, another by reading the stored row after
\* a later event had been committed
C7_Witness ==
    \E d, e \in Calls :
        /\ cfut[d] = "resolved" /\ cpc[d] = "waiting"
        /\ cfut[e] = "resolved" /\ cpc[e] = "done" /\ cval[e].v < cuv[e]

\* C8: observers are notified of successfully processed events in v order:
\* no notification for an older event follows one for a newer event.
C8_NotificationsInOrder ==
    \A i, j \in 1..Len(resultLog) :
        i < j => resultLog[i] < resultLog[j]

\* C9: every _triggerEventListeners call emits `handled` for its event.
C9_HandledAlwaysEmitted ==
    lastEmit.v # 0 => (\E i \in 1..Len(lastEmit.names) : lastEmit.names[i] = "handled")

\* the sub-event of a failed parent that failed: the i of 'subevent <i> failed'
FailedSub(ev) ==
    CHOOSE i \in 1..Len(ev.events) :
        <<"_handle", "subevent " \o ToString(i - 1) \o " failed">> \in ev.error

Unprocessed(sub) == sub.error = {} /\ ~sub.hasResult

\* C10: when a sub-event failed (and the transaction itself did not), the stored top-level event has the single
\* error _handle 'subevent <i> failed', no result but a failedResult, the
\* sub-events after i were not processed, and tables and user_version are as
\* before the iteration.
C10_SubEventAtomicity ==
    (lpc = "after" /\ lres # NullEvent
        /\ <<"_SQLite", "thrown">> \notin lres.error
        /\ \E i \in 1..Len(lres.events) : lres.events[i].error # {}) =>
        LET i == FailedSub(lres)
        IN  /\ lres.error = {<<"_handle", "subevent " \o ToString(i - 1) \o " failed">>}
            /\ lres.events[i].error # {}
            /\ ~lres.hasResult /\ lres.hasFailed
            /\ queue[lres.v] = lres
            /\ \A j \in (i + 1)..Len(lres.events) : Unprocessed(lres.events[j])
            /\ uv = pre.uv /\ store = pre.store

\* a sub-event at depth 2 failed after a sibling of its parent had been applied
C10_Witness ==
    /\ lpc = "after" /\ lres.type = "NEST"
    /\ Len(lres.events) >= 3
    /\ lres.events[1].hasResult
    /\ lres.events[2].error # {}
    /\ Len(lres.events[2].events) >= 2 /\ lres.events[2].events[2].error # {}
    /\ uv = pre.uv /\ store = pre.store

\* the calls in progress are nested one level each, and the call beyond the
\* recursion guard returns the error 'events recursing too deep'
FramesNested ==
    \A k \in 1..Len(frames) :
        /\ frames[k].depth = k - 1
        /\ frames[k].depth > MaxDepth =>
                (frames[k].done /\ <<"_handle", "events recursing too deep">> \in frames[k].event.error)

\* followed call by call, _handleEvent returns what it returns in one step
StepwiseAgrees ==
    (lpc = "handled" /\ lres # NullEvent /\ levent.type # "LOOP") =>
        \E flaky \in BOOLEAN :
            LET r == _handleEvent(ClearEvent(levent), 0,
                                  PipelineStart([uv |-> pre.uv, store |-> pre.store]), flaky)
            IN  /\ lres = r.event /\ tx.uv = r.st.uv /\ tx.store = r.st.store
                /\ plog = r.st.log

\* what the stored LOOP event holds after the iteration
LoopEventOutcome ==
    (lpc = "after" /\ lres.type = "LOOP") =>
        /\ lres.error = {<<"_handle", "subevent 0 failed">>}
        /\ queue[lres.v] = lres
        /\ uv = 0 /\ store = <<>>

\* C11: when a preprocessor always emits a sub-event of its own type, the
\* iteration ends, the stored top-level event has error._handle = 'events
\* recursing too deep' and user_version is unchanged.
C11_TopLevelRecursingTooDeep ==
    (lpc = "after" /\ lres.type = "LOOP") =>
        /\ <<"_handle", "events recursing too deep">> \in lres.error
        /\ queue[lres.v] = lres
        /\ uv = pre.uv /\ store = pre.store

\* the reducers that fail for an event type
FailingReducers(type) == {n \in SeqToSet(reducerNames) : ReducerOut(n, type) = "error"}

\* C12: when a reducer fails, the event returned by the pipeline has an error
\* key reduce_<name> for exactly the failing reducers and no result; nothing
\* was applied or derived and user_version was not written, not even inside
\* the transaction; after the iteration (when the transaction itself did not
\* fail) the event is stored so and tables and user_version are unchanged.
C12_ReducerErrorIsolation ==
    /\ (lpc = "handled" /\ lres # NullEvent /\ FailingReducers(lres.type) # {}) =>
            /\ lres.error = {<<"reduce_" \o n, "thrown">> : n \in FailingReducers(lres.type)}
            /\ ~lres.hasResult /\ ~lres.hasFailed
            /\ tx.store = pre.store /\ tx.uv = pre.uv
    /\ (lpc = "after" /\ lres # NullEvent /\ FailingReducers(lres.type) # {}
            /\ <<"_SQLite", "thrown">> \notin lres.error) =>
            /\ queue[lres.v] = lres
            /\ lres.error = {<<"reduce_" \o n, "thrown">> : n \in FailingReducers(lres.type)}
            /\ ~lres.hasResult
            /\ store = pre.store /\ uv = pre.uv

\* reducer A failed and reducer B returned changes, after an earlier event
\* had been applied
C12_Witness ==
    /\ lpc = "after" /\ lres.type = "RFAIL" /\ lres.v = 2
    /\ lres.error = {<<"reduce_A", "thrown">>}
    /\ ReducerOut("B", "RFAIL") = "changes"
    /\ uv = 1 /\ store = pre.store

\* what the pipeline returns for the fetched event had it never been handled
\* before: the row as queue.add wrote it, run against the tables as they are
FirstAttempt == _handleEvent(NewEvent(levent.v, levent.type), 0, PipelineStart(pre), FALSE)

\* C13: when an event whose row was stored with an error is handled again
\* and succeeds, its result, its list of handled sub-events and the tables
\* are what a successful first attempt yields.
C13_RetryIsIdempotent ==
    (lpc = "handled" /\ lres # NullEvent /\ lres.error = {} /\ levent.error # {}) =>
        /\ lres.result = FirstAttempt.event.result
        /\ lres.events = FirstAttempt.event.events
        /\ tx.store = FirstAttempt.st.store
        /\ tx.uv = FirstAttempt.st.uv

\* the loop is about to make, or is making, an attempt
Attempting == lpc \in {"sleep", "gv1", "getNext", "gv2", "gv2done", "handling", "handled", "after"}

\* C14: the error counter is the number of attempts of the activation that
\* failed in a row (0 after a success); before the attempt that follows the
\* N-th failure the loop sleeps 5000 * N ms; after the 39th failure it gives
\* up, naming event lastV + 1, and makes no further attempt.
C14_RetryBackoffBound ==
    /\ errorCount = failedInRow
    /\ failedInRow <= MAX_RETRY + 1
    /\ lpc = "sleep" => (failedInRow >= 1 /\ lwait = 5000 * failedInRow)
    /\ Attempting => failedInRow <= MAX_RETRY
    /\ lpc = "thrown" => (failedInRow = 39 /\ (lres.error # {} => lres.v = lastV + 1))
    /\ (failedInRow = MAX_RETRY + 1 /\ waitingP) => lpc \in {"thrown", "ret"}

\* the loop gave up on the first event after 39 failed attempts
C14_Witness ==
    /\ lpc = "thrown" /\ failedInRow = 39
    /\ lres.v = 1 /\ lres.error # {} /\ uv = 0
    /\ Len(queue) = 2

\* C15: _waitForEvent is never called while an earlier activation is in
\* flight; the activation in flight is the one _waitingP holds, and a write
\* transaction is open only inside it, for the one event it fetched.
C15_SingleFlightLoop ==
    /\ ~overlap
    /\ InFlight(lpc) => waitingP
    /\ tx.open => (lpc \in {"gv2", "gv2done", "handling", "handled"} /\ levent # NullEvent)

\* startPolling() was called after stopPolling() while an event was in the
\* pipeline and a dispatch was waiting for it
C15_Witness ==
    /\ isPolling /\ stops = 1 /\ reallyStop
    /\ lpc = "handled" /\ tx.open
    /\ \E d \in Calls : cpc[d] = "waiting" /\ cv[d] = levent.v

\* C16: a waitForQueue() future that read a latest version v > 0 resolves
\* only when user_version >= v, with the event of version v; one that read 0
\* resolves at once with undefined, and that step registers no waiter,
\* changes neither _minVersion nor _maxWaitingFor and starts no loop.
C16_WaitForQueue ==
    [][\A d \in Calls :
        /\ (ctype'[d] = "waitForQueue" /\ cfut'[d] = "resolved" /\ cv'[d] > 0) =>
                /\ cval'[d].v = cv'[d] /\ cval'[d].hasResult /\ cval'[d].error = {}
                /\ cuv'[d] >= cv'[d] /\ uv' >= cv'[d]
        /\ (ctype[d] = "waitForQueue" /\ cpc[d] = "added" /\ cv[d] = 0
                /\ cpc'[d] # "added") =>
                /\ cfut'[d] = "resolved" /\ cval'[d] = NullEvent
                /\ UNCHANGED <<waitVars, pollVars, loopVars, gvVars>>
        /\ (ctype'[d] = "waitForQueue" /\ cv'[d] = 0) => cpc'[d] \in {"latest", "added", "done"}
      ]_vars

\* waitForQueue() read latest version 2 and was resolved by the loop when
\* event 2 had been processed
C16_Witness ==
    \E d \in Calls :
        /\ ctype[d] = "waitForQueue" /\ cv[d] = 2
        /\ cpc[d] = "waiting" /\ cfut[d] = "resolved"
        /\ cval[d].v = 2 /\ uv = 2


\* C17: waiter registration is idempotent per v: calls of handledVersion(v)
\* that wait for the same v wait on one future (that of the call which
\* created the entry of the waiter set), so they observe one settlement, the
\* entry of v in the waiter set is that future while it is registered, and
\* _maxWaitingFor is the highest v that was ever registered.
Waiting(d) == cpc[d] = "waiting"

C17_SharedWaiter ==
    /\ \A d1, d2 \in Calls :
          (Waiting(d1) /\ Waiting(d2) /\ cv[d1] = cv[d2]) => cown[d1] = cown[d2]
    /\ \A d \in Calls :
          Waiting(d) => /\ cv[cown[d]] = cv[d]
                        /\ Waiting(cown[d])
                        /\ waitingFor[cv[d]] \in {0, cown[d]}
                        /\ maxWaitingFor >= cv[d]
    /\ maxWaitingFor \in {0} \cup {cv[d] : d \in {c \in Calls : Waiting(c)}}

C17_Witness ==
    \E d1, d2 \in Calls :
        /\ d1 # d2 /\ Waiting(d1) /\ Waiting(d2)
        /\ cv[d1] = cv[d2] /\ cown[d2] = d1
        /\ cfut[d1] = "resolved"


\* C18: a call handledVersion(v) made when v is at most the persisted version
\* settles from the stored queue row and leaves the loop alone: it never waits
\* on the waiter set and never owns an entry of it, and once it has returned
\* its future is resolved with the stored event, or rejected with it when the
\* stored row has an error.
CalledWhenHandled(d) == cv[d] > 0 /\ ccall[d] >= cv[d]

C18_HandledReadsStoredRow ==
    \A d \in Calls :
        CalledWhenHandled(d) =>
            /\ cpc[d] \in {"gv", "get", "done"}
            /\ \A v \in Versions : waitingFor[v] # d
            /\ cpc[d] = "done" =>
                  /\ cv[d] <= Len(queue)
                  /\ cval[d].v = cv[d]
                  /\ cfut[d] = (IF cval[d].error # {} THEN "rejected" ELSE "resolved")


\* The iteration of the event that was in the pipeline when stopPolling() was
\* called is at its end, with the stop flag still set.
StopEnds == stopAt > 0 /\ reallyStop /\ lpc = "after" /\ levent.v = stopAt

\* the waiters registered for the event whose iteration ends
WaitersOf(v) == {d \in Calls : Waiting(d) /\ cv[d] = v /\ waitingFor[v] = cown[d]}

\* stopPolling() touches nothing of the event in the pipeline; when that
\* event was handled by this iteration, the iteration ends with its
\* transaction finished and its outcome stored, calls _triggerEventListeners
\* with it, clears the flag and returns undefined; the .then that follows
\* starts no other activation.
StopLetsEventFinish ==
    [][/\ (stops' # stops) => UNCHANGED <<dbVars, loopVars, futVars, waitVars, frames>>
       /\ (StopEnds /\ lres # NullEvent /\ lpc' # "after") =>
             /\ lres.v = stopAt /\ ~tx.open
             /\ queue[stopAt] = lres
             /\ (lres.error = {}) => uv = stopAt
             /\ (lres.error # {}) => uv = pre.uv /\ store = pre.store
             /\ lastEmit'.v = stopAt /\ waitingFor'[stopAt] = 0
             /\ lpc' = "ret" /\ lret' = -1 /\ ~reallyStop'
             /\ UNCHANGED <<dbVars, gvVars, levent>>
       /\ (lpc = "ret" /\ lret = -1 /\ lpc' # "ret") => lpc' = "none" /\ ~waitingP'
      ]_vars

\* C19: stopPolling never cancels an event in mid-processing: when it is called
\* while an event is in the pipeline, the iteration of that event ends with
\* its transaction finished (committed or rolled back), its outcome stored in
\* the queue and the futures of its waiters settled, and then the loop exits
\* with the stop flag cleared, without fetching another event.
C19_StopAfterEvent ==
    [][(StopEnds /\ lpc' # "after") =>
          /\ ~tx.open
          /\ queue[stopAt].error # {} \/ queue[stopAt].hasResult
          /\ \A d \in WaitersOf(stopAt) : cfut'[cown[d]] \in {"resolved", "rejected"}
          /\ lpc' = "ret" /\ lret' = -1 /\ ~reallyStop'
      ]_vars

\* The iteration during which stopPolling() was called observes the flag.
\* This fails when the event it fetched is found processed already: the
\* `continue` of line 515 passes the test of the flag by.
StopObservedByItsIteration ==
    [][(StopEnds /\ lpc' # "after") => ~reallyStop']_vars


\* The constructor, once done over the fixture's models map with no event in
\* the queue, leaves the engine in the state the other specifications start in.
CtorReachesInit ==
    (ctorPc = "done" /\ adds = 0 /\ DOMAIN models = SeqToSet(ModelNames)) =>
        /\ minVersion = 1 /\ waitingP /\ ~isPolling /\ ~reallyStop
        /\ lpc = "gv1" /\ gvState = "issued" /\ gvAwait = <<0>>
        /\ rwDbStore = SeqToSet(ModelNames) /\ roDbStore = rwDbStore
        /\ esStore = rwDbStore

\* addModel() under a name the handle's store holds already throws and leaves
\* the store as it was; under a new name it adds the model
DuplicateNameRejected ==
    [][(adds' # adds) =>
          LET before == IF lastAdd'.handle = "rw" THEN rwDbStore ELSE roDbStore
              after  == IF lastAdd'.handle = "rw" THEN rwDbStore' ELSE roDbStore'
          IN  IF lastAdd'.name \in before
              THEN lastAdd'.threw /\ after = before
              ELSE ~lastAdd'.threw /\ after = before \cup {lastAdd'.name}
      ]_vars

DuplicateName_Witness ==
    /\ lastAdd.threw /\ lastAdd.name = "A" /\ lastAdd.handle = "rw"
    /\ rwDbStore = {"A", "B"}

\* C20: the construction of the engine fails when the models map holds the
\* reserved name `metadata`, and addModel() under a name that the store of
\* the handle holds already throws and leaves that store unchanged.
C20_ReservedAndDuplicateNames ==
    [][/\ ("metadata" \in DOMAIN models) => ctorPc' # "done"
       /\ (adds' # adds /\ lastAdd'.handle = "rw" /\ lastAdd'.name \in rwDbStore) =>
              lastAdd'.threw /\ rwDbStore' = rwDbStore
       /\ (adds' # adds /\ lastAdd'.handle = "ro" /\ lastAdd'.name \in roDbStore) =>
              lastAdd'.threw /\ roDbStore' = roDbStore
      ]_vars


\* ------------------------------------------------------- the calls of a run
TypesOf(recs) == [k \in 1..Len(recs) |-> recs[k].type]

\* _handleEvent got as far as its loop over the sub-events
ReachedSubs(ev) ==
    \A e \in ev.error : e[1] = "_handle" /\ e[2] # "events recursing too deep"

\* the sub-events the loop of _handleEvent handled: all of them, or those up
\* to the first that failed
HandledSubs(ev) ==
    LET bad == {k \in 1..Len(ev.events) : ev.events[k].error # {}}
    IN  IF ~ReachedSubs(ev) THEN <<>>
        ELSE IF bad = {} THEN ev.events
        ELSE SubSeq(ev.events, 1, CHOOSE k \in bad : \A j \in bad : k <= j)

\* no record of the tree of sub-events has a field v
RECURSIVE NoVBelow(_, _)
NoVBelow(ev, fuel) ==
    \A k \in 1..Len(ev.events) :
        /\ "v" \notin DOMAIN ev.events[k]
        /\ fuel > 0 => NoVBelow(ev.events[k], fuel - 1)

IsFirstPreprocessor(c) == c.op = "preprocessor" /\ c.who = preprocModels[1]
IsSubStart(c) == IsFirstPreprocessor(c) /\ c.depth = 1
IsBelowTop(c) == c.depth > 0
IsTopApplyPhase(c) == c.depth = 0 /\ c.op \in {"applyChanges", "version", "deriver"}

\* position of the first call of the log that satisfies a test (0: none)
FirstWhere(log, Test(_)) ==
    LET hits == {k \in 1..Len(log) : Test(log[k])}
    IN  IF hits = {} THEN 0 ELSE CHOOSE k \in hits : \A j \in hits : k <= j

LastWhere(log, Test(_)) ==
    LET hits == {k \in 1..Len(log) : Test(log[k])}
    IN  IF hits = {} THEN 0 ELSE CHOOSE k \in hits : \A j \in hits : k >= j

\* C21: the sub-events of an event are handled one after the other in list
\* order, each by a call of the whole pipeline at depth + 1 under the v of
\* the parent, only after the apply phase of the parent succeeded and inside
\* the transaction of the parent; the records kept in event.events have no v.
C21_SubEventsInOrder ==
    (lpc = "handled" /\ lres # NullEvent) =>
        /\ TypesOf(SelectSeq(plog, IsSubStart)) = TypesOf(HandledSubs(lres))
        /\ \A k \in 1..Len(plog) :
              /\ plog[k].v = levent.v
              /\ plog[k].depth > 0 =>
                    \E j \in 1..(k - 1) : plog[j].depth = plog[k].depth - 1
              /\ (k > 1 /\ plog[k].depth > plog[k - 1].depth) =>
                    /\ plog[k].depth = plog[k - 1].depth + 1
                    /\ IsFirstPreprocessor(plog[k])
        /\ (\E k \in 1..Len(plog) : IsBelowTop(plog[k])) =>
              /\ \A e \in lres.error : e[1] = "_handle"
              /\ LastWhere(plog, IsTopApplyPhase) < FirstWhere(plog, IsBelowTop)
              /\ LastWhere(plog, IsTopApplyPhase) > 0
        /\ NoVBelow(lres, 3)
        /\ tx.open /\ uv = pre.uv /\ store = pre.store

C21_Witness ==
    /\ lpc = "handled" /\ lres.type = "NEST" /\ lres # NullEvent
    /\ TypesOf(SelectSeq(plog, IsSubStart)) = <<"CHILD", "PBAD">>
    /\ \E k \in 1..Len(plog) : plog[k].depth = 2 /\ plog[k].type = "RFAIL"


\* a preprocessor returns a new event object for this type
Canonicalized(type) == \E n \in SeqToSet(preprocModels) : PreOut(n, type) = "new"

\* C22: when a preprocessor returns a new event object, the reducers, the
\* apply phase and the derivers are given the event the last preprocessor
\* returned, and that event is the one returned for the queue row.
C22_ReducersGetCanonicalEvent ==
    (lpc = "handled" /\ lres # NullEvent /\ Canonicalized(levent.type)) =>
        /\ \A k \in 1..Len(plog) :
              (plog[k].depth = 0 /\ plog[k].op \in {"reducer", "applyChanges", "version", "deriver"})
                  => plog[k].data = _preprocessor(ClearEvent(levent)).event.data
        /\ lres.data = _preprocessor(ClearEvent(levent)).event.data


\* the preprocessors that fail for an event type, by position
FailingPreprocessors(type) ==
    {i \in 1..Len(preprocModels) :
        PreOut(preprocModels[i], type) \in {"throw", "badv", "notype"}}

FirstFailing(type) ==
    CHOOSE i \in FailingPreprocessors(type) : \A j \in FailingPreprocessors(type) : i <= j

IsTopPreprocessor(c) == c.op = "preprocessor" /\ c.depth = 0

WhoOf(recs) == [k \in 1..Len(recs) |-> recs[k].who]

\* C23: the preprocessors run one after the other in registration order; the
\* first that throws or returns an event with another v or without a type
\* ends the run: the event returned has the v and type of the event handled
\* and the single error _preprocess_<name> of that model, no later
\* preprocessor and no reducer, applyChanges, version write or deriver is
\* called, and user_version and the tables are untouched.
C23_PreprocessorAborts ==
    (lpc = "handled" /\ lres # NullEvent) =>
        IF FailingPreprocessors(levent.type) = {}
        THEN WhoOf(SelectSeq(plog, IsTopPreprocessor)) = preprocModels
        ELSE LET i == FirstFailing(levent.type)
             IN  /\ WhoOf(plog) = SubSeq(preprocModels, 1, i)
                 /\ \A k \in 1..Len(plog) : IsTopPreprocessor(plog[k])
                 /\ lres.error = {<<"_preprocess_" \o preprocModels[i], "thrown">>}
                 /\ lres.v = levent.v /\ lres.type = levent.type
                 /\ ~lres.hasResult
                 /\ tx.uv = pre.uv /\ tx.store = pre.store

C23_Witness ==
    /\ lpc = "handled" /\ lres.type = "PFAILB" /\ lres # NullEvent
    /\ WhoOf(plog) = <<"A", "B">>
    /\ lres.error = {<<"_preprocess_B", "thrown">>}


IsVersionWrite(c) == c.op = "version"

\* C24: user_version is written at most once for a top-level event, by the
\* apply phase of the call at depth 0 and with the v of the event; no call
\* that handles a sub-event, at whatever depth, writes it.
C24_VersionWrittenOnceAtTop ==
    (lpc \in {"handling", "handled"} /\ lres # NullEvent) =>
        /\ Len(SelectSeq(plog, IsVersionWrite)) <= 1
        /\ \A k \in 1..Len(plog) :
              IsVersionWrite(plog[k]) => plog[k].depth = 0 /\ plog[k].v = levent.v
        /\ tx.uv \in {pre.uv, levent.v}
        /\ (tx.uv = levent.v) => Len(SelectSeq(plog, IsVersionWrite)) = 1

C24_Witness ==
    /\ lpc = "handled" /\ lres.type = "NEST" /\ lres # NullEvent
    /\ Len(SelectSeq(plog, IsVersionWrite)) = 1
    /\ \E k \in 1..Len(plog) : plog[k].depth = 2 /\ plog[k].op = "applyChanges"
    /\ tx.uv = levent.v


IsApplyChanges(c) == c.op = "applyChanges"
IsDeriver(c) == c.op = "deriver"

\* the error keys _applyEvent can set
ApplyKeys == {"_apply-apply", "_apply-version", "_apply-derive", "_apply-???"}

\* the error keys _applyEvent set on an event
ApplyErrors(ev) == {e \in ev.error : e[1] \in ApplyKeys}

\* C25: inside the apply phase every applyChanges call is made before
\* user_version is written, the version is written only when no applyChanges
\* failed, the derivers are called only after the version write and only when
\* nothing failed before, and a failure is recorded under the one key
\* _apply-<phase> of the phase that failed, after which no later phase runs.
C25_ApplyPhaseOrder ==
    (lpc = "handled" /\ lres # NullEvent) =>
        LET top  == SelectSeq(plog, LAMBDA c : c.depth = 0
                                        /\ c.op \in {"applyChanges", "version", "deriver"})
            ops  == [k \in 1..Len(top) |-> top[k].op]
            nA   == Len(SelectSeq(top, IsApplyChanges))
            nV   == Len(SelectSeq(top, IsVersionWrite))
            nD   == Len(SelectSeq(top, IsDeriver))
            applyBad  == \E n \in SeqToSet(ModelNames) :
                            ReducerOut(n, levent.type) = "changes" /\ ApplyThrows(n, levent.type)
            errs == ApplyErrors(lres)
        IN  /\ \A j, k \in 1..Len(top) :
                  j < k => ~(ops[j] = "version" /\ ops[k] = "applyChanges")
                        /\ ~(ops[j] = "deriver" /\ ops[k] \in {"applyChanges", "version"})
            /\ nV <= 1
            /\ (nV = 1) => ~applyBad
            /\ (nD > 0) => nV = 1 /\ ~applyBad /\ ~VersionThrows(levent.type)
            /\ Cardinality(errs) <= 1
            /\ (<<"_apply-apply", "thrown">> \in errs) => applyBad /\ nV = 0 /\ nD = 0
            /\ (<<"_apply-version", "thrown">> \in errs) =>
                    VersionThrows(levent.type) /\ nV = 1 /\ nD = 0 /\ tx.uv = pre.uv
            /\ (<<"_apply-derive", "thrown">> \in errs) => nV = 1 /\ nD = Len(deriverModels)
            /\ (errs # {}) => lres.error = errs /\ ~lres.hasResult
            /\ (nA > 0 /\ applyBad) => errs = {<<"_apply-apply", "thrown">>}

C25_Witness ==
    /\ lpc = "handled" /\ lres.type = "DFAIL" /\ lres # NullEvent
    /\ lres.error = {<<"_apply-derive", "thrown">>}
    /\ Len(SelectSeq(plog, IsVersionWrite)) = 1
    /\ Len(SelectSeq(plog, IsDeriver)) = 2


SweepDelivered(v) == v \in sweeps /\ v \notin sweeps'

\* the settlement the re-read row of v asks for
SettlementOf(v) == IF queue[v].error = {} THEN "resolved" ELSE "rejected"

\* A notification takes out of the waiter set only waiters for versions up
\* to the version notified, and every waiter it sweeps gets a re-read: the
\* waiters for later versions stay registered, their futures pending.
SweepTakesOnlyPassedWaiters ==
    [][\A v \in Versions :
          (waitingFor[v] # 0 /\ waitingFor'[v] = 0) =>
              /\ v <= lastEmit'.v
              /\ v # lastEmit'.v => (v \in sweeps' /\ waitingFor[v] \in sweptOf'[v])
              /\ \A w \in Versions :
                    (w > lastEmit'.v /\ waitingFor[w] # 0) =>
                        (waitingFor'[w] = waitingFor[w] /\ cfut'[waitingFor[w]] = "pending")]_vars

\* C27: when the re-read of a swept waiter's event is delivered, the future
\* of that waiter is settled from the row read: resolved when the row has no
\* error, rejected when it has one.
C27_SweptWaiterSettled ==
    [][\A v \in Versions :
          SweepDelivered(v) =>
              \A o \in sweptOf[v] : cfut'[o] = SettlementOf(v)]_vars

\* a waiter was swept, its event (handled without error) is being re-read
C27_SweepPending ==
    \E v \in sweeps : sweptOf[v] # {} /\ queue[v].error = {}

\* -------------------------------------------- failed attempts are recorded
\* the iteration has its resultEvent and the attempt failed
AttemptFailed == lpc = "after" /\ lres # NullEvent /\ lres.error # {}

\* the failure was raised by the transaction machinery
IsSQLiteFailure == <<"_SQLite", "thrown">> \in lres.error

\* A failure the pipeline captured is written to the queue row by the
\* transaction of its attempt, and the loop goes on.
CapturedFailureRecorded ==
    (AttemptFailed /\ ~IsSQLiteFailure) => queue[lres.v] = lres

\* C28: after an attempt that failed, whatever raised the failure, the queue
\* row of the event has the error map of that attempt and the loop did not
\* throw.
C28_FailedAttemptRecorded ==
    /\ AttemptFailed => queue[lres.v].error = lres.error
    /\ (lpc = "thrown") => errorCount > MAX_RETRY

\* an attempt failed in the transaction machinery
C28_SQLiteFailure == AttemptFailed /\ IsSQLiteFailure

\* ------------------------------------------------- version reads coalesce
\* getVersionP is set
ReadPending == gvState # "none"

\* getVersion() is called in this step while getVersionP is set
JoinsPendingRead == ReadPending /\ Len(gvAwait') > Len(gvAwait)

\* the read settles in this step, resolved or rejected
ReadSettles == gvState \in {"done", "failed"} /\ gvState' # gvState

\* getVersion() is called in this step while getVersionP is null
CallsWhenCleared == ~ReadPending /\ gvAwait' # <<>>

\* C29: at most one read of user_version is under way, and one is under way
\* exactly while getVersionP is set; a call made while it is set joins those
\* that await it and starts no read; when the read settles, resolved or
\* rejected, getVersionP is cleared, and a call made after that starts a
\* read that has not yet looked at the database.
C29_VersionReadsSingleFlight ==
    [][/\ gvReads <= 1 /\ gvReads' <= 1
       /\ ReadPending <=> gvReads = 1
       /\ ReadPending' <=> gvReads' = 1
       /\ ~ReadPending' => gvAwait' = <<>>
       /\ JoinsPendingRead =>
             /\ gvReads' = gvReads /\ gvState' = gvState /\ gvVal' = gvVal
             /\ SubSeq(gvAwait', 1, Len(gvAwait)) = gvAwait
       /\ ReadSettles =>
             /\ gvState' \in {"none", "issued"}
             /\ gvState' = "issued" => (gvReads' = 1 /\ Len(gvAwait') = 1)
       /\ CallsWhenCleared => (gvState' = "issued" /\ gvReads' = 1)]_vars

\* two callers await one read, and that read was rejected
C29_Witness ==
    /\ gvState = "failed" /\ gvReads = 1
    /\ Len(gvAwait) >= 2

\* two callers await one read that returned a version
C29_SharedRead ==
    /\ gvState = "done" /\ gvReads = 1
    /\ Len(gvAwait) >= 2

\* ------------------------------------------------------------ the race skip
\* inside the transaction the loop holds an event that is not above the
\* version it has just read
RaceSeen == lpc = "gv2done" /\ levent.v <= lnowV

\* the transaction function has returned undefined, or the transaction has
\* committed, for an event skipped
RaceSkipped == lpc \in {"handled", "after"} /\ lres = NullEvent

\* the loop takes its next step
LoopSteps == lpc' # lpc

\* C30: an iteration that finds its event not above the persisted version
\* calls no preprocessor, reducer, applyChanges or deriver and writes nothing
\* in its transaction; it commits without rewriting the queue row, leaves
\* user_version, the tables and the error counter as they are, notifies
\* nobody, and goes to the `while` test of the loop.
C30_RaceSkipChangesNothing ==
    [][/\ (RaceSeen /\ LoopSteps) =>
             /\ lpc' = "handled" /\ lres' = NullEvent
             /\ plog' = <<>> /\ tx' = tx
             /\ UNCHANGED <<queue, uv, store, errorCount>>
       /\ RaceSkipped =>
             /\ plog' = <<>>
             /\ errorCount' = errorCount
             /\ queue'[levent.v] = queue[levent.v]
             /\ uv' = uv /\ store' = store
       /\ (RaceSkipped /\ LoopSteps /\ lpc = "handled") =>
             (lpc' = "after" /\ lres' = NullEvent)
       /\ (RaceSkipped /\ LoopSteps /\ lpc = "after") =>
             /\ UNCHANGED <<futVars, waitVars, obsVars, reallyStop>>
             /\ lpc' = WhileTop(lastV, errorCount, minVersion, GetVersionP, lret).lpc]_vars

\* the transaction of a skipped event has committed while dispatched events
\* wait in the queue
C30_Witness ==
    /\ lpc = "after" /\ lres = NullEvent
    /\ levent # NullEvent /\ levent.v <= lnowV /\ levent.v <= uv
    /\ Len(queue) > levent.v

\* ------------------------------------------------- dispatching after a stop
\* no loop is running and nothing that could start one is under way
LoopIdle ==
    /\ ~waitingP /\ lpc = "none"
    /\ gvState = "none" /\ sweeps = {}
    /\ \A d \in Calls : cpc[d] \in {"idle", "waiting", "done"}

\* the call waits on a registered waiter for an event that was not processed
LeftWaiting(d) ==
    /\ cpc[d] = "waiting" /\ waitingFor[cv[d]] = cown[d]
    /\ cfut[cown[d]] = "pending"
    /\ uv < cv[d]

\* C31: an event dispatched after the promise of stopPolling() resolved, with
\* no stopPolling() since, is never left unprocessed with its future pending
\* while no loop is running: the stop request is not applied to it.
C31_StopRequestDoesNotOutlive ==
    \A d \in Calls : (cafter[d] /\ LoopIdle) => ~LeftWaiting(d)

\* the stop request is still set after the promise of stopPolling() resolved
StaleStopRequest == stopP = "resolved" /\ reallyStop

\* ------------------------------------------------- result and error records
HasError(r) == r.error # {}

\* the record has an error or a result, and not both
ErrorOrResult(r) == HasError(r) # r.hasResult

\* the reducers had returned their result when the record got its error
FailedAfterReduce(r) ==
    \E e \in r.error : e[1] \in {"_handle", "_apply-apply", "_apply-version", "_apply-derive"}
                        /\ e[2] # "events recursing too deep"

\* the result the reducers return for an event type
ReducedResult(type) == {n \in SeqToSet(reducerNames) : ReducerOut(n, type) = "changes"}

\* a record the pipeline handled: exactly one of error and result; with an
\* error raised after the reducers the result they had returned is the
\* failedResult
HandledRecordOk(r) ==
    /\ ErrorOrResult(r)
    /\ (HasError(r) /\ FailedAfterReduce(r)) =>
            (r.hasFailed /\ r.failedResult = ReducedResult(r.type))
    /\ ~HasError(r) => r.result = ReducedResult(r.type)

\* no record of the tree of sub-events has both an error and a result
RECURSIVE NeverBothBelow(_, _)
NeverBothBelow(ev, fuel) ==
    \A k \in 1..Len(ev.events) :
        /\ ~(HasError(ev.events[k]) /\ ev.events[k].hasResult)
        /\ fuel > 0 => NeverBothBelow(ev.events[k], fuel - 1)

\* every record of the tree of sub-events has an error or a result
RECURSIVE ErrorOrResultBelow(_, _)
ErrorOrResultBelow(ev, fuel) ==
    \A k \in 1..Len(ev.events) :
        /\ ErrorOrResult(ev.events[k])
        /\ fuel > 0 => ErrorOrResultBelow(ev.events[k], fuel - 1)

\* every sub-event record that was handled, at every level, is as it should
RECURSIVE HandledBelowOk(_, _)
HandledBelowOk(ev, fuel) ==
    \A k \in 1..Len(HandledSubs(ev)) :
        /\ HandledRecordOk(ev.events[k])
        /\ fuel > 0 => HandledBelowOk(ev.events[k], fuel - 1)

\* the loop writes the row of its event in this step
RowWritten == lpc = "handled" /\ lres # NullEvent /\ lpc' = "after"

\* C32 as stated: the record the loop writes to the queue and every
\* sub-event record stored inside it has an error or a result, never both.
C32_EveryRecordErrorOrResult ==
    [][RowWritten =>
          /\ ErrorOrResult(queue'[lres.v])
          /\ ErrorOrResultBelow(queue'[lres.v], 3)]_vars

\* C32: the record the loop writes to the queue has exactly one of error and
\* result: the error of the attempt and, as failedResult, the result the
\* attempt had produced, or the result and no error. No sub-event record
\* stored inside it has both, and every sub-event record that was handled has
\* exactly one, with the result of a failed one kept as failedResult.
C32_ResultErrorExclusive ==
    [][RowWritten =>
          LET row == queue'[lres.v]
          IN  /\ ErrorOrResult(row)
              /\ row.error = lres.error
              /\ HasError(lres) =>
                     (lres.hasResult => (row.hasFailed /\ row.failedResult = lres.result))
              /\ ~HasError(lres) => (row.hasResult /\ row.result = lres.result)
              /\ NeverBothBelow(row, 3)
              /\ HandledBelowOk(row, 3)]_vars

\* a stored event whose sub-event failed two levels down: the failed
\* sub-events keep their results as failedResult, the sub-events after them
\* were not handled
C32_Witness ==
    /\ lpc = "after" /\ lres # NullEvent /\ lres.type = "NEST"
    /\ queue[lres.v] = lres
    /\ HasError(lres) /\ lres.hasFailed /\ ~lres.hasResult
    /\ \E k \in 1..Len(lres.events) :
          /\ HasError(lres.events[k]) /\ lres.events[k].hasFailed
          /\ \E j \in 1..Len(lres.events[k].events) :
                HasError(lres.events[k].events[j])
    /\ \E k \in 1..Len(lres.events) :
          ~HasError(lres.events[k]) /\ ~lres.events[k].hasResult
====
